---------------------------- MODULE Spec2Model ----------------------------
(***************************************************************************)
(* Model of the CAN simulator firmware: the CarCanController state, the   *)
(* MessageGeneratorFactory registry and its encoders, the TWAI bus driver  *)
(* as the controller uses it, the periodic transmission task (twai_task),  *)
(* and the two front ends that call the setters: the serial command       *)
(* handler task and the UI event handlers.                                 *)
(*                                                                         *)
(* Every task is a sequence of steps; one step holds at most one access   *)
(* to state another task can touch (the controller's three fields, the    *)
(* generator cache, the bus driver).  Nothing in the source takes a lock, *)
(* so the steps of different tasks interleave freely.                      *)
(***************************************************************************)
EXTENDS Integers, Sequences, FiniteSets, TLC

(***************************************************************************)
(* Bounds of the model.                                                    *)
(***************************************************************************)
\* commands and UI events issued over a run (serial lines plus UI events)
MaxEvents == 2

(***************************************************************************)
(* common.h: button_id_t                                                   *)
(***************************************************************************)
VW_T5 == 1
VW_T6 == 2
VW_T61 == 3
VW_T7 == 4
MB_SPRINTER == 5
MB_SPRINTER_2023 == 6
JEEP_RENEGADE == 7
JEEP_RENEGADE_MHEV == 8
MB_VIANO == 9

\* static_cast<button_id_t>(0): the "invalid" marker of stringToVehicleId
INVALID_VEHICLE == 0

\* the keys of CarCanController::button_map (the nine declared vehicles)
button_map ==
    {VW_T5, VW_T6, VW_T61, VW_T7, MB_SPRINTER, MB_SPRINTER_2023,
     JEEP_RENEGADE, JEEP_RENEGADE_MHEV, MB_VIANO}

(***************************************************************************)
(* BaseMessageGenerator.h: enum class Gear (ordinals)                      *)
(***************************************************************************)
PARK == 0
REVERSE == 1
NEUTRAL == 2
DRIVE == 3

Gears == {PARK, REVERSE, NEUTRAL, DRIVE}

\* CarCanController::setSpeed: the largest speed it stores
MAX_SPEED_KMH == 250

\* uint8_t: the conversion of an int argument to the parameter type
U8(n) == n % 256

\* uint16_t
U16(n) == n % 65536

(***************************************************************************)
(* Encoders.  A generator is named by its class; the registry holds one   *)
(* instance per vehicle id.                                                *)
(***************************************************************************)
\* isVehicleSupported with the VW T5 case missing from its switch
isVehicleSupported_without_T5(vehicle) ==
    vehicle \in {VW_T7, VW_T6, VW_T61}

\* MessageGeneratorFactory::isVehicleSupported
isVehicleSupported(vehicle) ==
    vehicle \in {VW_T7, VW_T6, VW_T61, VW_T5}

\* getSupportedVehicles listing the ids as the enum declares them
getSupportedVehicles_declaration_order == <<VW_T5, VW_T6, VW_T61, VW_T7>>

\* MessageGeneratorFactory::getSupportedVehicles (the vector, in its order)
getSupportedVehicles == <<VW_T7, VW_T6, VW_T61, VW_T5>>

\* createMessageGenerator falling back to a VW T7 generator in its default branch
createMessageGenerator_default(vehicle) ==
    IF vehicle \in {VW_T6, VW_T61, VW_T5} THEN "VWT6" ELSE "VWT7"

\* createMessageGenerator constructing a VW T7 generator for VW T5
createMessageGenerator_T5_as_T7(vehicle) ==
    CASE vehicle \in {VW_T7, VW_T5} -> "VWT7"
      [] vehicle \in {VW_T6, VW_T61} -> "VWT6"
      [] OTHER -> "null"

\* MessageGeneratorFactory::createMessageGenerator: the class constructed,
\* "null" for the default branch (nullptr)
createMessageGenerator(vehicle) ==
    CASE vehicle = VW_T7 -> "VWT7"
      [] vehicle \in {VW_T6, VW_T61, VW_T5} -> "VWT6"
      [] OTHER -> "null"

\* VWT7MessageGenerator.h / VWT6MessageGenerator.h constants
VWT7_SPEED_MSG_ID == 253
VWT7_GEAR_MSG_ID == 988
VWT7_CAN_BAUDRATE == 500000
VWT6_SPEED_MSG_ID == 416
VWT6_GEAR_MSG_ID == 1088
VWT6_CAN_BAUDRATE == 500000

\* SPEED_FACTOR as the single-precision value it is: 0.01f is
\* 5368709 / 2^29 (bits 0x3C23D70A), 0.005f is 5368709 / 2^30 (0x3BA3D70A)
SPEED_FACTOR_SIGNIFICAND == 5368709
VWT7_SPEED_FACTOR_EXPONENT == 29
VWT6_SPEED_FACTOR_EXPONENT == 30

\* getRequiredMessageIds returning {SPEED_MSG_ID, GEAR_MSG_ID}
getRequiredMessageIds_swapped(cls) ==
    IF cls = "VWT7" THEN <<VWT7_SPEED_MSG_ID, VWT7_GEAR_MSG_ID>>
    ELSE <<VWT6_SPEED_MSG_ID, VWT6_GEAR_MSG_ID>>

\* getRequiredMessageIds with VW T6's gear id in the extended (29-bit) range
getRequiredMessageIds_extended(cls) ==
    IF cls = "VWT7" THEN <<VWT7_GEAR_MSG_ID, VWT7_SPEED_MSG_ID>>
    ELSE <<VWT6_GEAR_MSG_ID + 2^11, VWT6_SPEED_MSG_ID>>

\* getRequiredMessageIds(): {GEAR_MSG_ID, SPEED_MSG_ID}
getRequiredMessageIds(cls) ==
    IF cls = "VWT7" THEN <<VWT7_GEAR_MSG_ID, VWT7_SPEED_MSG_ID>>
    ELSE <<VWT6_GEAR_MSG_ID, VWT6_SPEED_MSG_ID>>

\* the value getCANBaudRate() of each encoder class returns
VARIABLE encoder_baudrate

\* the encoder classes
EncoderClasses == {"VWT7", "VWT6"}

\* the values the two classes of the repository return
DeclaredBaudRates ==
    [cls \in EncoderClasses |->
        IF cls = "VWT7" THEN VWT7_CAN_BAUDRATE ELSE VWT6_CAN_BAUDRATE]

\* getCANBaudRate returning the rate in kbit/s
getCANBaudRate_kbit(cls) ==
    IF cls = "VWT7" THEN VWT7_CAN_BAUDRATE \div 1000
    ELSE VWT6_CAN_BAUDRATE \div 1000

\* generator->getCANBaudRate(), a virtual call: what the class returns
getCANBaudRate(cls) == encoder_baudrate[cls]

\* generator->getVehicleType(): VWT7MessageGenerator returns VW_T7,
\* VWT6MessageGenerator returns VW_T6
getVehicleType(cls) == IF cls = "VWT7" THEN VW_T7 ELSE VW_T6

\* uint8_t data[8]; TLA+ index i + 1 is data[i]
ZeroData == <<0, 0, 0, 0, 0, 0, 0, 0>>

\* clearDataBuffer not clearing
clearDataBuffer_skipped(data, size) == data

\* BaseMessageGenerator::clearDataBuffer(data, size): memset(data, 0, size)
clearDataBuffer(data, size) ==
    [i \in 1..8 |-> IF i <= size THEN 0 ELSE data[i]]

\* speed_value kept in a uint8_t
speed_value_uint8(cls, speed_kmh) ==
    IF cls = "VWT7" THEN U8(speed_kmh * 100) ELSE U8(speed_kmh * 200)

\* static_cast<uint16_t>(speed_kmh / SPEED_FACTOR): the single-precision
\* quotient speed_kmh * 2^e / significand, truncated.  The exact quotient is
\* computed by long division (32-bit integers suffice); rounding it to the
\* nearest float does not change its integer part, because rounding is
\* monotone and the integers below 2^24 on both sides are floats.
speed_value(cls, speed_kmh) ==
    LET pow == IF cls = "VWT7" THEN 2^VWT7_SPEED_FACTOR_EXPONENT
               ELSE 2^VWT6_SPEED_FACTOR_EXPONENT
        whole == pow \div SPEED_FACTOR_SIGNIFICAND
        rest == pow % SPEED_FACTOR_SIGNIFICAND
    IN  U16(speed_kmh * whole
            + (speed_kmh * rest) \div SPEED_FACTOR_SIGNIFICAND)

\* generateSpeedMessage writing the raw value to data[4], data[5] in both
\* classes
generateSpeedMessage_T7_offset(cls, speed_kmh, data) ==
    LET raw == speed_value(cls, speed_kmh)
    IN  [dlc |-> 8,
         data |-> [clearDataBuffer(data, 8) EXCEPT ![5] = raw % 256,
                                                   ![6] = (raw \div 256) % 256]]

\* generateSpeedMessage: dlc = 8, clear, low byte then high byte at the
\* family's offset (VW T7: data[4], data[5]; VW T6: data[2], data[3])
generateSpeedMessage(cls, speed_kmh, data) ==
    LET cleared == clearDataBuffer(data, 8)
        raw == speed_value(cls, speed_kmh)
        lo == IF cls = "VWT7" THEN 5 ELSE 3
    IN  [dlc |-> 8,
         data |-> [cleared EXCEPT ![lo] = raw % 256,
                                  ![lo + 1] = (raw \div 256) % 256]]

\* the switch of generateGearMessage with a default branch that encodes 0
gear_value_no_default(cls, gear) ==
    IF cls = "VWT7"
    THEN CASE gear = PARK -> 5
           [] gear = REVERSE -> 4
           [] gear = NEUTRAL -> 3
           [] gear = DRIVE -> 2
           [] OTHER -> 0
    ELSE CASE gear = PARK -> 128
           [] gear = REVERSE -> 119
           [] gear = NEUTRAL -> 96
           [] gear = DRIVE -> 80
           [] OTHER -> 0

\* the switch of generateGearMessage, default branch included
gear_value(cls, gear) ==
    IF cls = "VWT7"
    THEN CASE gear = PARK -> 5
           [] gear = REVERSE -> 4
           [] gear = NEUTRAL -> 3
           [] gear = DRIVE -> 2
           [] OTHER -> 5
    ELSE CASE gear = PARK -> 128
           [] gear = REVERSE -> 119
           [] gear = NEUTRAL -> 96
           [] gear = DRIVE -> 80
           [] OTHER -> 128

\* generateGearMessage writing the gear byte to data[1] in both classes
generateGearMessage_T6_offset(cls, gear, data) ==
    [dlc |-> 8,
     data |-> [clearDataBuffer(data, 8) EXCEPT ![2] = gear_value(cls, gear)]]

\* generateGearMessage: dlc = 8, clear, gear byte (VW T7: data[5]; VW T6: data[1])
generateGearMessage(cls, gear, data) ==
    LET cleared == clearDataBuffer(data, 8)
        at == IF cls = "VWT7" THEN 6 ELSE 2
    IN  [dlc |-> 8, data |-> [cleared EXCEPT ![at] = gear_value(cls, gear)]]

(***************************************************************************)
(* SerialCommandHandler: name <-> id helpers                               *)
(***************************************************************************)
\* stringToVehicleId comparing only the length of each declared name, in the
\* order of the chain: a longer name that begins with an earlier one is taken
\* for the earlier one
stringToVehicleId_prefix(vehicle_str) ==
    CASE vehicle_str = "VWT7" -> VW_T7
      [] vehicle_str \in {"VWT6", "VWT61"} -> VW_T6
      [] vehicle_str = "VWT5" -> VW_T5
      [] vehicle_str \in {"MB_SPRINTER", "MB_SPRINTER_2023"} -> MB_SPRINTER
      [] vehicle_str \in {"JEEP_RENEGADE", "JEEP_RENEGADE_MHEV"} ->
            JEEP_RENEGADE
      [] vehicle_str = "MB_VIANO" -> MB_VIANO
      [] OTHER -> INVALID_VEHICLE

\* SerialCommandHandler::stringToVehicleId (strcmp chain)
stringToVehicleId(vehicle_str) ==
    CASE vehicle_str = "VWT7" -> VW_T7
      [] vehicle_str = "VWT6" -> VW_T6
      [] vehicle_str = "VWT61" -> VW_T61
      [] vehicle_str = "VWT5" -> VW_T5
      [] vehicle_str = "MB_SPRINTER" -> MB_SPRINTER
      [] vehicle_str = "MB_SPRINTER_2023" -> MB_SPRINTER_2023
      [] vehicle_str = "JEEP_RENEGADE" -> JEEP_RENEGADE
      [] vehicle_str = "JEEP_RENEGADE_MHEV" -> JEEP_RENEGADE_MHEV
      [] vehicle_str = "MB_VIANO" -> MB_VIANO
      [] OTHER -> INVALID_VEHICLE

\* SerialCommandHandler::vehicleIdToString
vehicleIdToString(vehicle) ==
    CASE vehicle = VW_T7 -> "VWT7"
      [] vehicle = VW_T6 -> "VWT6"
      [] vehicle = VW_T61 -> "VWT61"
      [] vehicle = VW_T5 -> "VWT5"
      [] vehicle = MB_SPRINTER -> "MB_SPRINTER"
      [] vehicle = MB_SPRINTER_2023 -> "MB_SPRINTER_2023"
      [] vehicle = JEEP_RENEGADE -> "JEEP_RENEGADE"
      [] vehicle = JEEP_RENEGADE_MHEV -> "JEEP_RENEGADE_MHEV"
      [] vehicle = MB_VIANO -> "MB_VIANO"
      [] OTHER -> "UNKNOWN"

\* SerialCommandHandler::stringToGear: PARK for anything unrecognised
stringToGear(gear_str) ==
    CASE gear_str = "PARK" -> PARK
      [] gear_str = "REVERSE" -> REVERSE
      [] gear_str = "NEUTRAL" -> NEUTRAL
      [] gear_str = "DRIVE" -> DRIVE
      [] OTHER -> PARK

\* SerialCommandHandler::gearToString
gearToString(gear) ==
    CASE gear = PARK -> "PARK"
      [] gear = REVERSE -> "REVERSE"
      [] gear = NEUTRAL -> "NEUTRAL"
      [] gear = DRIVE -> "DRIVE"
      [] OTHER -> "UNKNOWN"

(***************************************************************************)
(* State                                                                   *)
(***************************************************************************)
\* what getchar() returns when no character is waiting
EOF == -1

VARIABLES
    current_vehicle,     \* CarCanController::current_vehicle
    current_speed_kmh,   \* CarCanController::current_speed_kmh
    current_gear,        \* CarCanController::current_gear
    generator_cache,     \* MessageGeneratorFactory::generator_cache: vehicle -> class
    twai_state,          \* TWAI driver: "uninstalled", "stopped" or "running"
    twai_baud,           \* bit rate of the installed driver's timing (0: none)
    tx_pc,               \* twai_task: position
    tx_baud,             \* twai_task: local baudrate
    tx_veh,              \* twai_task: the vehicle its cache lookup read (0: none)
    tx_gen,              \* sendPeriodicMessages: generator held (its cache key; 0: none)
    tx_data,             \* sendPeriodicMessages: uint8_t data[8]
    tx_dlc,              \* sendPeriodicMessages: uint8_t dlc
    tx_frames,           \* frames handed to twai_transmit in the current tick
    tick_states,         \* (vehicle, speed, gear) values held while the tick read them
    pc,                  \* position of the serial task and of the UI task
    req,                 \* the command line / UI event each is handling
    rc_baud,             \* reconfigureCANController: local baudrate
    rc_veh,              \* reconfigureCANController: vehicle of a lookup in progress
    ser_out,             \* what the serial handler printed for the current line
    events,              \* command lines and UI events so far
    rx_message,          \* twai_receive_task: local message (last frame received)
    input_buffer,        \* SerialCommandHandler::input_buffer, as character codes
    serial_ch,           \* serialTask: the value getchar() returned last
    command_str          \* the line serialTask passed to processCommand last

vars == <<current_vehicle, current_speed_kmh, current_gear, generator_cache,
          twai_state, twai_baud, tx_pc, tx_baud, tx_veh, tx_gen, tx_data,
          tx_dlc, tx_frames, tick_states, pc, req, rc_baud, rc_veh, ser_out,
          events, rx_message, encoder_baudrate, input_buffer, serial_ch,
          command_str>>

\* the serial task's line input
serin == <<input_buffer, serial_ch, command_str>>

ctl == <<current_vehicle, current_speed_kmh, current_gear>>
drv == <<twai_state, twai_baud>>
txv == <<tx_pc, tx_baud, tx_veh, tx_gen, tx_data, tx_dlc, tx_frames>>
setv == <<pc, req, rc_baud, rc_veh, ser_out, events>>

\* the tasks that call the setters
Tasks == {"serial", "ui"}

NoReq == [name |-> "none", str |-> "", num |-> 0]

\* uint32_t baudrate = 500000 in reconfigureCANController and twai_task
DEFAULT_BAUDRATE == 500000

(***************************************************************************)
(* CarCanController setters                                                *)
(***************************************************************************)
\* setCurrentVehicle asking the registry instead of the button map
setCurrentVehicleAccepts_registry(vehicle) == isVehicleSupported(vehicle)

\* setCurrentVehicle refusing only the invalid marker 0
setCurrentVehicleAccepts_nonzero(vehicle) == vehicle # INVALID_VEHICLE

\* setCurrentVehicle: button_map.find(vehicle) != button_map.end()
setCurrentVehicleAccepts(vehicle) == vehicle \in button_map

\* setSpeed without its range check
setSpeedAccepts_unchecked(speed_kmh) == TRUE

\* setSpeed: speed_kmh <= 250
setSpeedAccepts(speed_kmh) == speed_kmh <= MAX_SPEED_KMH

\* positions of a tick between its first and its last read of the controller
InTick == tx_pc \in {"create", "gear_gen", "gear_send", "speed_gen"}

\* a write of the controller's fields (the tick's history follows it)
Store(vehicle, speed_kmh, gear) ==
    /\ current_vehicle' = vehicle
    /\ current_speed_kmh' = speed_kmh
    /\ current_gear' = gear
    /\ tick_states' = IF InTick
                      THEN tick_states \cup {<<vehicle, speed_kmh, gear>>}
                      ELSE tick_states

\* setSpeed adding its argument to the speed instead of storing it
setSpeed_accumulating(speed_kmh) ==
    IF setSpeedAccepts(speed_kmh)
    THEN Store(current_vehicle, U8(current_speed_kmh + speed_kmh),
               current_gear)
    ELSE UNCHANGED <<ctl, tick_states>>

\* CarCanController::setSpeed(uint8_t)
setSpeed(speed_kmh) ==
    IF setSpeedAccepts(speed_kmh)
    THEN Store(current_vehicle, speed_kmh, current_gear)
    ELSE UNCHANGED <<ctl, tick_states>>

\* setGear bringing the speed to 0 when PARK is engaged
setGear_park_stops(gear) ==
    Store(current_vehicle,
          IF gear = PARK THEN 0 ELSE current_speed_kmh, gear)

\* CarCanController::setGear
setGear(gear) == Store(current_vehicle, current_speed_kmh, gear)

(***************************************************************************)
(* TWAI driver (ESP-IDF), as far as its state decides the calls' results   *)
(***************************************************************************)
\* twai_stop: ESP_OK only from the running state
twai_stop_ok == twai_state = "running"
\* twai_driver_uninstall: ESP_OK only from the stopped state
twai_driver_uninstall_ok == twai_state = "stopped"
\* twai_driver_install: ESP_ERR_INVALID_STATE when a driver is installed
twai_driver_install_possible == twai_state = "uninstalled"
\* twai_start: ESP_OK only from the stopped state
twai_start_ok == twai_state = "stopped"
\* twai_transmit: ESP_ERR_INVALID_STATE unless running
twai_transmit_possible == twai_state = "running"

\* reconfigureCANController: the timing chosen for a baud rate: 500k, 250k,
\* 125k, else the 500k default
TimingFor(baudrate) ==
    IF baudrate = 500000 THEN 500000
    ELSE IF baudrate = 250000 THEN 250000
    ELSE IF baudrate = 125000 THEN 125000
    ELSE 500000

\* twai_task's chain without its 125000 branch
InitialTimingFor_without_125k(baudrate) ==
    IF baudrate = 500000 THEN 500000
    ELSE IF baudrate = 250000 THEN 250000
    ELSE 500000

\* twai_task: its own copy of the same if / else if chain
InitialTimingFor(baudrate) ==
    IF baudrate = 500000 THEN 500000
    ELSE IF baudrate = 250000 THEN 250000
    ELSE IF baudrate = 125000 THEN 125000
    ELSE 500000

(***************************************************************************)
(* MessageGeneratorFactory::getMessageGenerator, in its two steps: the     *)
(* cache lookup and, on a miss, construction and the cache write.          *)
(***************************************************************************)
\* generator_cache.find(vehicle) != generator_cache.end()
Cached(vehicle) == vehicle \in DOMAIN generator_cache

\* generator_cache[vehicle] = shared_gen
CacheWith(vehicle, cls) == (vehicle :> cls) @@ generator_cache

\* the class of the generator a task holds under cache key gen
ClassOf(gen) == createMessageGenerator(gen)

(***************************************************************************)
(* app_main / CarCanController::startCan                                   *)
(***************************************************************************)
\* startCan: xTaskCreate(twai_task): the serial task and the UI exist before
StartCan ==
    /\ tx_pc = "none"
    /\ tx_pc' = "init_has"
    /\ UNCHANGED <<ctl, generator_cache, drv, tx_baud, tx_veh, tx_gen, tx_data,
                   tx_dlc, tx_frames, tick_states, setv>>
    /\ UNCHANGED <<rx_message, encoder_baudrate, serin>>

(***************************************************************************)
(* twai_task: initial configuration                                        *)
(***************************************************************************)
\* if (controller->hasMessageGenerator())
TxInitHas ==
    /\ tx_pc = "init_has"
    /\ tx_pc' = IF isVehicleSupported(current_vehicle)
                THEN "init_get" ELSE "init_install"
    /\ UNCHANGED <<ctl, generator_cache, drv, tx_baud, tx_veh, tx_gen, tx_data,
                   tx_dlc, tx_frames, tick_states, setv>>
    /\ UNCHANGED <<rx_message, encoder_baudrate, serin>>

\* getCurrentMessageGenerator(): the cache lookup
TxInitGet ==
    /\ tx_pc = "init_get"
    /\ IF Cached(current_vehicle)
       THEN /\ tx_baud' = getCANBaudRate(generator_cache[current_vehicle])
            /\ tx_pc' = "init_install"
            /\ UNCHANGED tx_veh
       ELSE /\ tx_veh' = current_vehicle
            /\ tx_pc' = "init_create"
            /\ UNCHANGED tx_baud
    /\ UNCHANGED <<ctl, generator_cache, drv, tx_gen, tx_data, tx_dlc,
                   tx_frames, tick_states, setv>>
    /\ UNCHANGED <<rx_message, encoder_baudrate, serin>>

\* getMessageGenerator after a miss: create, cache, return; if (generator) baud
TxInitCreate ==
    /\ tx_pc = "init_create"
    /\ LET cls == createMessageGenerator(tx_veh)
       IN  IF cls # "null"
           THEN /\ generator_cache' = CacheWith(tx_veh, cls)
                /\ tx_baud' = getCANBaudRate(cls)
           ELSE UNCHANGED <<generator_cache, tx_baud>>
    /\ tx_veh' = 0
    /\ tx_pc' = "init_install"
    /\ UNCHANGED <<ctl, drv, tx_gen, tx_data, tx_dlc, tx_frames, tick_states,
                   setv>>
    /\ UNCHANGED <<rx_message, encoder_baudrate, serin>>

\* twai_driver_install: on failure vTaskDelete(NULL)
TxInitInstall ==
    /\ tx_pc = "init_install"
    /\ \E hw_ok \in BOOLEAN :
          IF twai_driver_install_possible /\ hw_ok
          THEN /\ twai_state' = "stopped"
               /\ twai_baud' = InitialTimingFor(tx_baud)
               /\ tx_pc' = "init_start"
          ELSE /\ tx_pc' = "deleted"
               /\ UNCHANGED drv
    /\ UNCHANGED <<ctl, generator_cache, tx_baud, tx_veh, tx_gen, tx_data,
                   tx_dlc, tx_frames, tick_states, setv>>
    /\ UNCHANGED <<rx_message, encoder_baudrate, serin>>

\* twai_start: on failure twai_driver_uninstall() and vTaskDelete(NULL)
TxInitStart ==
    /\ tx_pc = "init_start"
    /\ IF twai_start_ok
       THEN /\ twai_state' = "running"
            /\ tx_pc' = "loop"
       ELSE /\ tx_pc' = "init_abort"
            /\ UNCHANGED twai_state
    /\ UNCHANGED <<ctl, generator_cache, twai_baud, tx_baud, tx_veh, tx_gen,
                   tx_data, tx_dlc, tx_frames, tick_states, setv>>
    /\ UNCHANGED <<rx_message, encoder_baudrate, serin>>

\* the twai_driver_uninstall() of the failed start, then vTaskDelete(NULL)
TxInitAbort ==
    /\ tx_pc = "init_abort"
    /\ IF twai_driver_uninstall_ok
       THEN twai_state' = "uninstalled" /\ twai_baud' = 0
       ELSE UNCHANGED drv
    /\ tx_pc' = "deleted"
    /\ UNCHANGED <<ctl, generator_cache, tx_baud, tx_veh, tx_gen, tx_data,
                   tx_dlc, tx_frames, tick_states, setv>>
    /\ UNCHANGED <<rx_message, encoder_baudrate, serin>>

(***************************************************************************)
(* twai_task: the periodic loop and sendPeriodicMessages                   *)
(***************************************************************************)
\* while (1): if (controller && controller->hasMessageGenerator())
TxLoop ==
    /\ tx_pc = "loop"
    /\ tx_pc' = IF isVehicleSupported(current_vehicle) THEN "fetch" ELSE "delay"
    /\ UNCHANGED <<ctl, generator_cache, drv, tx_baud, tx_veh, tx_gen, tx_data,
                   tx_dlc, tx_frames, tick_states, setv>>
    /\ UNCHANGED <<rx_message, encoder_baudrate, serin>>

\* sendPeriodicMessages: auto generator = getCurrentMessageGenerator() (lookup)
TxFetch ==
    /\ tx_pc = "fetch"
    /\ tick_states' = {<<current_vehicle, current_speed_kmh, current_gear>>}
    /\ tx_veh' = current_vehicle
    /\ IF Cached(current_vehicle)
       THEN tx_gen' = current_vehicle /\ tx_pc' = "gear_gen"
       ELSE tx_pc' = "create" /\ UNCHANGED tx_gen
    /\ UNCHANGED <<ctl, generator_cache, drv, tx_baud, tx_data, tx_dlc,
                   tx_frames, setv>>
    /\ UNCHANGED <<rx_message, encoder_baudrate, serin>>

\* getMessageGenerator after a miss; if (!generator) return
TxCreate ==
    /\ tx_pc = "create"
    /\ LET cls == createMessageGenerator(tx_veh)
       IN  IF cls # "null"
           THEN /\ generator_cache' = CacheWith(tx_veh, cls)
                /\ tx_gen' = tx_veh
                /\ tx_pc' = "gear_gen"
           ELSE /\ tx_pc' = "delay"
                /\ UNCHANGED <<generator_cache, tx_gen>>
    /\ UNCHANGED <<ctl, drv, tx_baud, tx_veh, tx_data, tx_dlc, tx_frames,
                   tick_states, setv>>
    /\ UNCHANGED <<rx_message, encoder_baudrate, serin>>

\* auto ids = getRequiredMessageIds(); if (!ids.empty()) generateGearMessage
TxGearGen ==
    /\ tx_pc = "gear_gen"
    /\ IF Len(getRequiredMessageIds(ClassOf(tx_gen))) > 0
       THEN LET m == generateGearMessage(ClassOf(tx_gen), current_gear, tx_data)
            IN  /\ tx_data' = m.data
                /\ tx_dlc' = m.dlc
                /\ tx_pc' = "gear_send"
       ELSE /\ tx_pc' = "speed_gen"
            /\ UNCHANGED <<tx_data, tx_dlc>>
    /\ UNCHANGED <<ctl, generator_cache, drv, tx_baud, tx_veh, tx_gen,
                   tx_frames, tick_states, setv>>
    /\ UNCHANGED <<rx_message, encoder_baudrate, serin>>

\* send_can_message: the frame handed to twai_transmit and its result
Transmit(message_id) ==
    \E bus_ok \in BOOLEAN :
        tx_frames' = Append(tx_frames,
                            [id |-> message_id, dlc |-> tx_dlc,
                             data |-> SubSeq(tx_data, 1, tx_dlc),
                             ok |-> twai_transmit_possible /\ bus_ok])

\* sendPeriodicMessages giving the tick up when the gear frame's transmit failed
TxGearSend_abort_on_failure ==
    /\ tx_pc = "gear_send"
    /\ Transmit(getRequiredMessageIds(ClassOf(tx_gen))[1])
    /\ tx_pc' = IF tx_frames'[Len(tx_frames')].ok THEN "speed_gen" ELSE "delay"
    /\ UNCHANGED <<ctl, generator_cache, drv, tx_baud, tx_veh, tx_gen, tx_data,
                   tx_dlc, tick_states, setv>>
    /\ UNCHANGED <<rx_message, encoder_baudrate, serin>>

\* send_can_message(ids[0], data, dlc)
TxGearSend ==
    /\ tx_pc = "gear_send"
    /\ Transmit(getRequiredMessageIds(ClassOf(tx_gen))[1])
    /\ tx_pc' = "speed_gen"
    /\ UNCHANGED <<ctl, generator_cache, drv, tx_baud, tx_veh, tx_gen, tx_data,
                   tx_dlc, tick_states, setv>>
    /\ UNCHANGED <<rx_message, encoder_baudrate, serin>>

\* if (ids.size() > 1) generateSpeedMessage(current_speed_kmh, data, dlc)
TxSpeedGen ==
    /\ tx_pc = "speed_gen"
    /\ IF Len(getRequiredMessageIds(ClassOf(tx_gen))) > 1
       THEN LET m == generateSpeedMessage(ClassOf(tx_gen), current_speed_kmh,
                                          tx_data)
            IN  /\ tx_data' = m.data
                /\ tx_dlc' = m.dlc
                /\ tx_pc' = "speed_send"
       ELSE /\ tx_pc' = "delay"
            /\ UNCHANGED <<tx_data, tx_dlc>>
    /\ UNCHANGED <<ctl, generator_cache, drv, tx_baud, tx_veh, tx_gen,
                   tx_frames, tick_states, setv>>
    /\ UNCHANGED <<rx_message, encoder_baudrate, serin>>

\* the speed frame sent under the speed id of the vehicle selected by then
TxSpeedSend_current_vehicle ==
    /\ tx_pc = "speed_send"
    /\ Transmit(getRequiredMessageIds(
                    IF isVehicleSupported(current_vehicle)
                    THEN ClassOf(current_vehicle) ELSE ClassOf(tx_gen))[2])
    /\ tx_pc' = "delay"
    /\ UNCHANGED <<ctl, generator_cache, drv, tx_baud, tx_veh, tx_gen, tx_data,
                   tx_dlc, tick_states, setv>>
    /\ UNCHANGED <<rx_message, encoder_baudrate, serin>>

\* send_can_message(ids[1], data, dlc); sendPeriodicMessages returns
TxSpeedSend ==
    /\ tx_pc = "speed_send"
    /\ Transmit(getRequiredMessageIds(ClassOf(tx_gen))[2])
    /\ tx_pc' = "delay"
    /\ UNCHANGED <<ctl, generator_cache, drv, tx_baud, tx_veh, tx_gen, tx_data,
                   tx_dlc, tick_states, setv>>
    /\ UNCHANGED <<rx_message, encoder_baudrate, serin>>

\* vTaskDelay(pdMS_TO_TICKS(100)): the tick's locals are gone, the next begins
TxDelay ==
    /\ tx_pc = "delay"
    /\ tx_pc' = "loop"
    /\ tx_veh' = 0
    /\ tx_gen' = 0
    /\ tx_data' = ZeroData
    /\ tx_dlc' = 0
    /\ tx_frames' = <<>>
    /\ tick_states' = {}
    /\ UNCHANGED <<ctl, generator_cache, drv, tx_baud, setv>>
    /\ UNCHANGED <<rx_message, encoder_baudrate, serin>>

(***************************************************************************)
(* twai_receive_task: twai_receive(&message, 1000 ms) for ever              *)
(***************************************************************************)
\* twai_message_t message before the first frame has been received into it
NoMessage == [identifier |-> 0, data_length_code |-> 0, data |-> ZeroData]

\* frames other nodes put on the bus: a VW T7 gear frame (DRIVE), a VW T6
\* speed frame (100 km/h), a short frame of an id no encoder uses
RxFrames ==
    {[identifier |-> VWT7_GEAR_MSG_ID, data_length_code |-> 8,
      data |-> <<0, 0, 0, 0, 0, 2, 0, 0>>],
     [identifier |-> VWT6_SPEED_MSG_ID, data_length_code |-> 8,
      data |-> <<0, 0, 32, 78, 0, 0, 0, 0>>],
     [identifier |-> 1911, data_length_code |-> 2,
      data |-> <<255, 255, 0, 0, 0, 0, 0, 0>>]}

\* twai_receive: ESP_ERR_INVALID_STATE without an installed driver
twai_receive_possible == twai_state # "uninstalled"

\* a receive task that takes the speed of a received VW T6 speed frame over
\* into the controller
twai_receive_task_feedback ==
    /\ tx_pc # "none"
    /\ twai_receive_possible
    /\ \E frame \in RxFrames :
          /\ rx_message' = frame
          /\ IF frame.identifier = VWT6_SPEED_MSG_ID
             THEN Store(current_vehicle,
                        (frame.data[3] + 256 * frame.data[4]) \div 200,
                        current_gear)
             ELSE UNCHANGED <<ctl, tick_states>>
    /\ UNCHANGED <<generator_cache, drv, txv, setv, encoder_baudrate, serin>>

\* twai_receive_task, one turn of its loop: ESP_OK with a frame copied into
\* message, or a timeout or an error that leaves message as it is; neither
\* branch does anything
twai_receive_task ==
    /\ tx_pc # "none"
    /\ \/ /\ twai_receive_possible
          /\ \E frame \in RxFrames : rx_message' = frame
       \/ UNCHANGED rx_message
    /\ UNCHANGED <<ctl, generator_cache, drv, txv, tick_states, setv,
                   encoder_baudrate, serin>>

(***************************************************************************)
(* The serial task and the UI task: a request arrives, its handler runs,   *)
(* the request is finished.                                                *)
(***************************************************************************)
Request(name, str, num) == [name |-> name, str |-> str, num |-> num]

\* one printed JSON object: its type, command and the value fields it carries
\* ("-" and -1: the field is absent)
Msg(type, command, vehicle, gear, speed) ==
    [type |-> type, command |-> command, vehicle |-> vehicle, gear |-> gear,
     speed |-> speed]

\* sendError(message, command): sendResponse("error", "error", command, data)
sendError(command) == Msg("error", command, "-", "-", -1)

\* sendStatusUpdate(): the controller's state as it is read
sendStatusUpdate ==
    Msg("status_update", "-", vehicleIdToString(current_vehicle),
        gearToString(current_gear), current_speed_kmh)

\* a request arrives at an idle task: a line read by serialTask, an LVGL event
Arrive(t, inputs) ==
    /\ pc[t] = "idle"
    /\ events < MaxEvents
    /\ \E r \in inputs : req' = [req EXCEPT ![t] = r]
    /\ pc' = [pc EXCEPT ![t] = "handle"]
    /\ events' = events + 1
    /\ UNCHANGED <<ctl, generator_cache, drv, txv, tick_states, rc_baud,
                   rc_veh, ser_out>>
    /\ UNCHANGED <<rx_message, encoder_baudrate, serin>>

\* the handler has returned: the task waits for the next request
Finish(t) ==
    /\ pc[t] = "done"
    /\ pc' = [pc EXCEPT ![t] = "idle"]
    /\ req' = [req EXCEPT ![t] = NoReq]
    /\ ser_out' = IF t = "serial" THEN <<>> ELSE ser_out
    /\ UNCHANGED <<ctl, generator_cache, drv, txv, tick_states, rc_baud,
                   rc_veh, events>>
    /\ UNCHANGED <<rx_message, encoder_baudrate, serin>>

\* CarCanController::setCurrentVehicle called by task t: the store, then
\* reconfigureCANController; after is where t goes when the id is refused
setCurrentVehicle(t, vehicle, after) ==
    IF setCurrentVehicleAccepts(vehicle)
    THEN /\ Store(vehicle, current_speed_kmh, current_gear)
         /\ pc' = [pc EXCEPT ![t] = "rc_stop"]
    ELSE /\ UNCHANGED <<ctl, tick_states>>
         /\ pc' = [pc EXCEPT ![t] = after]

\* the value of a request whose JSON object lacks the field the handler looks
\* up, or holds it with another type (cJSON_GetObjectItem gives NULL, or
\* cJSON_IsString / cJSON_IsNumber / cJSON_IsBool is false)
AbsentField == "<absent>"

\* !item || !cJSON_Is...(item) is false: the field is there, with its type
FieldPresent(r) == r.str # AbsentField

\* handleGetStatus
handleGetStatus ==
    /\ pc["serial"] = "handle" /\ req["serial"].name = "get_status"
    /\ ser_out' = <<Msg("response", "get_status",
                        vehicleIdToString(current_vehicle),
                        gearToString(current_gear), current_speed_kmh)>>
    /\ pc' = [pc EXCEPT !["serial"] = "done"]
    /\ UNCHANGED <<ctl, generator_cache, drv, txv, tick_states, req, rc_baud,
                   rc_veh, events>>
    /\ UNCHANGED <<rx_message, encoder_baudrate, serin>>

\* handleSetVehicle without the check of the invalid marker
handleSetVehicleValid_unchecked(vehicle_id) == TRUE

\* handleSetVehicle: vehicle_id == 0 is the error
handleSetVehicleValid(vehicle_id) == vehicle_id # INVALID_VEHICLE

\* handleSetVehicle up to controller.setCurrentVehicle(vehicle_id)
handleSetVehicle ==
    /\ pc["serial"] = "handle" /\ req["serial"].name = "set_vehicle"
    /\ LET vehicle_id == stringToVehicleId(req["serial"].str)
       IN  IF FieldPresent(req["serial"]) /\ handleSetVehicleValid(vehicle_id)
           THEN /\ setCurrentVehicle("serial", vehicle_id, "respond")
                /\ UNCHANGED ser_out
           ELSE /\ ser_out' = <<sendError("set_vehicle")>>
                /\ pc' = [pc EXCEPT !["serial"] = "done"]
                /\ UNCHANGED <<ctl, tick_states>>
    /\ UNCHANGED <<generator_cache, drv, txv, req, rc_baud, rc_veh, events>>
    /\ UNCHANGED <<rx_message, encoder_baudrate, serin>>

\* handleSetGear trusting stringToGear's default
handleSetGearValid_unchecked(gear, gear_str) == TRUE

\* handleSetGear: gear == Gear::PARK && strcmp(valuestring, "PARK") != 0
handleSetGearValid(gear, gear_str) == ~(gear = PARK /\ gear_str # "PARK")

\* handleSetGear up to controller.setGear(gear)
handleSetGear ==
    /\ pc["serial"] = "handle" /\ req["serial"].name = "set_gear"
    /\ LET gear == stringToGear(req["serial"].str)
       IN  IF /\ FieldPresent(req["serial"])
              /\ handleSetGearValid(gear, req["serial"].str)
           THEN /\ setGear(gear)
                /\ pc' = [pc EXCEPT !["serial"] = "respond"]
                /\ UNCHANGED ser_out
           ELSE /\ ser_out' = <<sendError("set_gear")>>
                /\ pc' = [pc EXCEPT !["serial"] = "done"]
                /\ UNCHANGED <<ctl, tick_states>>
    /\ UNCHANGED <<generator_cache, drv, txv, req, rc_baud, rc_veh, events>>
    /\ UNCHANGED <<rx_message, encoder_baudrate, serin>>

\* handleSetSpeed without its range check
handleSetSpeedValid_unchecked(speed) == TRUE

\* handleSetSpeed accepting whatever fits the setter's uint8_t parameter
handleSetSpeedValid_uint8(speed) == speed \in 0..255

\* handleSetSpeed: speed < 0 || speed > 250 is the error
handleSetSpeedValid(speed) == ~(speed < 0 \/ speed > 250)

\* handleSetSpeed up to controller.setSpeed(speed)
handleSetSpeed ==
    /\ pc["serial"] = "handle" /\ req["serial"].name = "set_speed"
    /\ LET speed == req["serial"].num
       IN  IF FieldPresent(req["serial"]) /\ handleSetSpeedValid(speed)
           THEN /\ setSpeed(U8(speed))
                /\ pc' = [pc EXCEPT !["serial"] = "respond"]
                /\ UNCHANGED ser_out
           ELSE /\ ser_out' = <<sendError("set_speed")>>
                /\ pc' = [pc EXCEPT !["serial"] = "done"]
                /\ UNCHANGED <<ctl, tick_states>>
    /\ UNCHANGED <<generator_cache, drv, txv, req, rc_baud, rc_veh, events>>
    /\ UNCHANGED <<rx_message, encoder_baudrate, serin>>

\* handleResetSettings selecting the documented default vehicle VW_T7
handleResetSettings_T7 ==
    /\ pc["serial"] = "handle" /\ req["serial"].name = "reset_settings"
    /\ setCurrentVehicle("serial", VW_T7, "reset_gear")
    /\ UNCHANGED <<generator_cache, drv, txv, req, rc_baud, rc_veh, ser_out,
                   events>>
    /\ UNCHANGED <<rx_message, encoder_baudrate, serin>>

\* handleResetSettings: controller.setCurrentVehicle(VW_T6)
handleResetSettings ==
    /\ pc["serial"] = "handle" /\ req["serial"].name = "reset_settings"
    /\ setCurrentVehicle("serial", VW_T6, "reset_gear")
    /\ UNCHANGED <<generator_cache, drv, txv, req, rc_baud, rc_veh, ser_out,
                   events>>
    /\ UNCHANGED <<rx_message, encoder_baudrate, serin>>

\* handleResetSettings: controller.setGear(Gear::PARK)
ResetGear ==
    /\ pc["serial"] = "reset_gear"
    /\ setGear(PARK)
    /\ pc' = [pc EXCEPT !["serial"] = "reset_speed"]
    /\ UNCHANGED <<generator_cache, drv, txv, req, rc_baud, rc_veh, ser_out,
                   events>>
    /\ UNCHANGED <<rx_message, encoder_baudrate, serin>>

\* handleResetSettings: controller.setSpeed(0)
ResetSpeed ==
    /\ pc["serial"] = "reset_speed"
    /\ setSpeed(0)
    /\ pc' = [pc EXCEPT !["serial"] = "respond"]
    /\ UNCHANGED <<generator_cache, drv, txv, req, rc_baud, rc_veh, ser_out,
                   events>>
    /\ UNCHANGED <<rx_message, encoder_baudrate, serin>>

\* the keys of button_map in the order a std::map is iterated: ascending
ButtonMapKeys ==
    [i \in 1..Cardinality(button_map) |->
        CHOOSE v \in button_map :
            Cardinality({w \in button_map : w < v}) = i - 1]

\* the ok response of get_supported_vehicles: data.vehicles is an array of
\* names
VehiclesMsg(vehicles) ==
    [type |-> "response", command |-> "get_supported_vehicles",
     vehicle |-> "-", gear |-> "-", speed |-> -1, vehicles |-> vehicles]

\* handleGetSupportedVehicles listing what the registry reports
handleGetSupportedVehicles_registry ==
    /\ pc["serial"] = "handle"
    /\ req["serial"].name = "get_supported_vehicles"
    /\ ser_out' = <<VehiclesMsg([i \in 1..Len(getSupportedVehicles) |->
                        vehicleIdToString(getSupportedVehicles[i])])>>
    /\ pc' = [pc EXCEPT !["serial"] = "done"]
    /\ UNCHANGED <<ctl, generator_cache, drv, txv, tick_states, req, rc_baud,
                   rc_veh, events>>
    /\ UNCHANGED <<rx_message, encoder_baudrate, serin>>

\* handleGetSupportedVehicles: one name for every entry of the button map
handleGetSupportedVehicles ==
    /\ pc["serial"] = "handle"
    /\ req["serial"].name = "get_supported_vehicles"
    /\ ser_out' = <<VehiclesMsg([i \in 1..Len(ButtonMapKeys) |->
                        vehicleIdToString(ButtonMapKeys[i])])>>
    /\ pc' = [pc EXCEPT !["serial"] = "done"]
    /\ UNCHANGED <<ctl, generator_cache, drv, txv, tick_states, req, rc_baud,
                   rc_veh, events>>
    /\ UNCHANGED <<rx_message, encoder_baudrate, serin>>

\* handlePing: sendResponse("response", "ok", "ping")
handlePing ==
    /\ pc["serial"] = "handle" /\ req["serial"].name = "ping"
    /\ ser_out' = <<Msg("response", "ping", "-", "-", -1)>>
    /\ pc' = [pc EXCEPT !["serial"] = "done"]
    /\ UNCHANGED <<ctl, generator_cache, drv, txv, tick_states, req, rc_baud,
                   rc_veh, events>>
    /\ UNCHANGED <<rx_message, encoder_baudrate, serin>>

\* handleSetCanActive: the flag is acknowledged, nothing is done with it
handleSetCanActive ==
    /\ pc["serial"] = "handle" /\ req["serial"].name = "set_can_active"
    /\ ser_out' = IF FieldPresent(req["serial"])
                  THEN <<Msg("response", "set_can_active", "-", "-", -1)>>
                  ELSE <<sendError("set_can_active")>>
    /\ pc' = [pc EXCEPT !["serial"] = "done"]
    /\ UNCHANGED <<ctl, generator_cache, drv, txv, tick_states, req, rc_baud,
                   rc_veh, events>>
    /\ UNCHANGED <<rx_message, encoder_baudrate, serin>>

\* the commands processCommand dispatches
KnownCommands ==
    {"ping", "get_status", "set_vehicle", "set_gear", "set_speed",
     "set_can_active", "get_supported_vehicles", "reset_settings"}

\* a line cJSON_Parse rejects, and a JSON value without a "command" string;
\* every other request name is the value of the line's "command" field
MalformedJson == "<malformed>"
NoCommandField == "<no command>"

\* processCommand: sendError("Invalid JSON format"), sendError("Missing or
\* invalid 'command' field"), sendError("Unknown command", command)
processCommandError ==
    /\ pc["serial"] = "handle" /\ req["serial"].name \notin KnownCommands
    /\ ser_out' = IF req["serial"].name \in {MalformedJson, NoCommandField}
                  THEN <<sendError("-")>>
                  ELSE <<sendError(req["serial"].name)>>
    /\ pc' = [pc EXCEPT !["serial"] = "done"]
    /\ UNCHANGED <<ctl, generator_cache, drv, txv, tick_states, req, rc_baud,
                   rc_veh, events>>
    /\ UNCHANGED <<rx_message, encoder_baudrate, serin>>

\* the value fields of the ok response of the command being handled
OkResponse(r) ==
    CASE r.name = "set_vehicle" ->
            Msg("response", r.name,
                vehicleIdToString(stringToVehicleId(r.str)), "-", -1)
      [] r.name = "set_gear" ->
            Msg("response", r.name, "-", gearToString(stringToGear(r.str)), -1)
      [] r.name = "set_speed" -> Msg("response", r.name, "-", "-", r.num)
      [] OTHER -> Msg("response", r.name, "-", "-", -1)

\* the ok response without notifyStatusUpdate()
Respond_without_status ==
    /\ pc["serial"] = "respond"
    /\ ser_out' = <<OkResponse(req["serial"])>>
    /\ pc' = [pc EXCEPT !["serial"] = "done"]
    /\ UNCHANGED <<ctl, generator_cache, drv, txv, tick_states, req, rc_baud,
                   rc_veh, events>>
    /\ UNCHANGED <<rx_message, encoder_baudrate, serin>>

\* sendResponse("response", "ok", ...) and notifyStatusUpdate()
Respond ==
    /\ pc["serial"] = "respond"
    /\ ser_out' = <<OkResponse(req["serial"]), sendStatusUpdate>>
    /\ pc' = [pc EXCEPT !["serial"] = "done"]
    /\ UNCHANGED <<ctl, generator_cache, drv, txv, tick_states, req, rc_baud,
                   rc_veh, events>>
    /\ UNCHANGED <<rx_message, encoder_baudrate, serin>>

\* CarCanGui::dropdown_event_handler: the button_map key at the selected index
DropdownVehicle(selected) == selected + 1

\* dropdown_event_handler: btnCallback(item.first) for index == selected
dropdown_event_handler ==
    /\ pc["ui"] = "handle" /\ req["ui"].name = "dropdown"
    /\ IF DropdownVehicle(req["ui"].num) \in button_map
       THEN setCurrentVehicle("ui", DropdownVehicle(req["ui"].num), "done")
       ELSE /\ pc' = [pc EXCEPT !["ui"] = "done"]
            /\ UNCHANGED <<ctl, tick_states>>
    /\ UNCHANGED <<generator_cache, drv, txv, req, rc_baud, rc_veh, ser_out,
                   events>>
    /\ UNCHANGED <<rx_message, encoder_baudrate, serin>>

\* CarCanGui::speed_event_handler: controller.setSpeed(value)
speed_event_handler ==
    /\ pc["ui"] = "handle" /\ req["ui"].name = "slider"
    /\ setSpeed(U8(req["ui"].num))
    /\ pc' = [pc EXCEPT !["ui"] = "done"]
    /\ UNCHANGED <<generator_cache, drv, txv, req, rc_baud, rc_veh, ser_out,
                   events>>
    /\ UNCHANGED <<rx_message, encoder_baudrate, serin>>

\* CarCanGui::gear_event_handler: controller.setGear(static_cast<Gear>(index))
gear_event_handler ==
    /\ pc["ui"] = "handle" /\ req["ui"].name = "gear"
    /\ setGear(req["ui"].num)
    /\ pc' = [pc EXCEPT !["ui"] = "done"]
    /\ UNCHANGED <<generator_cache, drv, txv, req, rc_baud, rc_veh, ser_out,
                   events>>
    /\ UNCHANGED <<rx_message, encoder_baudrate, serin>>

(***************************************************************************)
(* CarCanController::reconfigureCANController, run by the task that called *)
(* setCurrentVehicle                                                       *)
(***************************************************************************)
\* where task t continues when reconfigureCANController has returned
AfterReconfigure(t) ==
    IF t = "ui" THEN "done"
    ELSE IF req[t].name = "reset_settings" THEN "reset_gear"
    ELSE "respond"

\* twai_stop()
RcStop(t) ==
    /\ pc[t] = "rc_stop"
    /\ twai_state' = IF twai_stop_ok THEN "stopped" ELSE twai_state
    /\ pc' = [pc EXCEPT ![t] = "rc_uninstall"]
    /\ UNCHANGED <<ctl, generator_cache, twai_baud, txv, tick_states, req,
                   rc_baud, rc_veh, ser_out, events>>
    /\ UNCHANGED <<rx_message, encoder_baudrate, serin>>

\* twai_driver_uninstall()
RcUninstall(t) ==
    /\ pc[t] = "rc_uninstall"
    /\ IF twai_driver_uninstall_ok
       THEN twai_state' = "uninstalled" /\ twai_baud' = 0
       ELSE UNCHANGED drv
    /\ pc' = [pc EXCEPT ![t] = "rc_has"]
    /\ UNCHANGED <<ctl, generator_cache, txv, tick_states, req, rc_baud,
                   rc_veh, ser_out, events>>
    /\ UNCHANGED <<rx_message, encoder_baudrate, serin>>

\* uint32_t baudrate = 500000; if (hasMessageGenerator())
RcHas(t) ==
    /\ pc[t] = "rc_has"
    /\ pc' = [pc EXCEPT ![t] = IF isVehicleSupported(current_vehicle)
                               THEN "rc_get" ELSE "rc_install"]
    /\ UNCHANGED <<ctl, generator_cache, drv, txv, tick_states, req, rc_baud,
                   rc_veh, ser_out, events>>
    /\ UNCHANGED <<rx_message, encoder_baudrate, serin>>

\* getCurrentMessageGenerator(): the cache lookup
RcGet(t) ==
    /\ pc[t] = "rc_get"
    /\ IF Cached(current_vehicle)
       THEN /\ rc_baud' = [rc_baud EXCEPT ![t] =
                              getCANBaudRate(generator_cache[current_vehicle])]
            /\ pc' = [pc EXCEPT ![t] = "rc_install"]
            /\ UNCHANGED rc_veh
       ELSE /\ rc_veh' = [rc_veh EXCEPT ![t] = current_vehicle]
            /\ pc' = [pc EXCEPT ![t] = "rc_create"]
            /\ UNCHANGED rc_baud
    /\ UNCHANGED <<ctl, generator_cache, drv, txv, tick_states, req, ser_out,
                   events>>
    /\ UNCHANGED <<rx_message, encoder_baudrate, serin>>

\* getMessageGenerator after a miss; if (generator) baudrate = getCANBaudRate()
RcCreate(t) ==
    /\ pc[t] = "rc_create"
    /\ LET cls == createMessageGenerator(rc_veh[t])
       IN  IF cls # "null"
           THEN /\ generator_cache' = CacheWith(rc_veh[t], cls)
                /\ rc_baud' = [rc_baud EXCEPT ![t] = getCANBaudRate(cls)]
           ELSE UNCHANGED <<generator_cache, rc_baud>>
    /\ rc_veh' = [rc_veh EXCEPT ![t] = 0]
    /\ pc' = [pc EXCEPT ![t] = "rc_install"]
    /\ UNCHANGED <<ctl, drv, txv, tick_states, req, ser_out, events>>
    /\ UNCHANGED <<rx_message, encoder_baudrate, serin>>

\* reconfigureCANController calling twai_start() whatever the install
\* returned
RcInstall_always_start(t) ==
    /\ pc[t] = "rc_install"
    /\ \E hw_ok \in BOOLEAN :
          IF twai_driver_install_possible /\ hw_ok
          THEN /\ twai_state' = "stopped"
               /\ twai_baud' = TimingFor(rc_baud[t])
          ELSE UNCHANGED drv
    /\ pc' = [pc EXCEPT ![t] = "rc_start"]
    /\ rc_baud' = [rc_baud EXCEPT ![t] = DEFAULT_BAUDRATE]
    /\ UNCHANGED <<ctl, generator_cache, txv, tick_states, req, rc_veh,
                   ser_out, events>>
    /\ UNCHANGED <<rx_message, encoder_baudrate, serin>>

\* twai_driver_install(&g_config, &t_config, &f_config)
RcInstall(t) ==
    /\ pc[t] = "rc_install"
    /\ \E hw_ok \in BOOLEAN :
          IF twai_driver_install_possible /\ hw_ok
          THEN /\ twai_state' = "stopped"
               /\ twai_baud' = TimingFor(rc_baud[t])
               /\ pc' = [pc EXCEPT ![t] = "rc_start"]
          ELSE /\ pc' = [pc EXCEPT ![t] = AfterReconfigure(t)]
               /\ UNCHANGED drv
    /\ rc_baud' = [rc_baud EXCEPT ![t] = DEFAULT_BAUDRATE]
    /\ UNCHANGED <<ctl, generator_cache, txv, tick_states, req, rc_veh,
                   ser_out, events>>
    /\ UNCHANGED <<rx_message, encoder_baudrate, serin>>

\* twai_start(), reached only when the install returned ESP_OK
RcStart(t) ==
    /\ pc[t] = "rc_start"
    /\ twai_state' = IF twai_start_ok THEN "running" ELSE twai_state
    /\ pc' = [pc EXCEPT ![t] = AfterReconfigure(t)]
    /\ UNCHANGED <<ctl, generator_cache, twai_baud, txv, tick_states, req,
                   rc_baud, rc_veh, ser_out, events>>
    /\ UNCHANGED <<rx_message, encoder_baudrate, serin>>

(***************************************************************************)
(* The requests the model draws                                            *)
(***************************************************************************)
SerialLines ==
    {Request("set_vehicle", "VWT7", 0), Request("set_vehicle", "MB_SPRINTER", 0),
     Request("set_gear", "DRIVE", 0), Request("set_speed", "", 50),
     Request("reset_settings", "", 0), Request("get_status", "", 0)}

UiEvents ==
    {Request("dropdown", "", 3), Request("slider", "", 100),
     Request("gear", "", REVERSE)}

(***************************************************************************)
(* The system                                                              *)
(***************************************************************************)
\* CarCanController::CarCanController(), an empty factory, no driver, and
\* app_main before startCan()
\* the state after construction, but for the encoders' constants
InitState ==
    /\ current_vehicle = VW_T6
    /\ current_speed_kmh = 0
    /\ current_gear = PARK
    /\ generator_cache = <<>>
    /\ twai_state = "uninstalled"
    /\ twai_baud = 0
    /\ tx_pc = "none"
    /\ tx_baud = DEFAULT_BAUDRATE
    /\ tx_veh = 0
    /\ tx_gen = 0
    /\ tx_data = ZeroData
    /\ tx_dlc = 0
    /\ tx_frames = <<>>
    /\ tick_states = {}
    /\ pc = [t \in Tasks |-> "idle"]
    /\ req = [t \in Tasks |-> NoReq]
    /\ rc_baud = [t \in Tasks |-> DEFAULT_BAUDRATE]
    /\ rc_veh = [t \in Tasks |-> 0]
    /\ ser_out = <<>>
    /\ events = 0
    /\ rx_message = NoMessage
    /\ input_buffer = <<>>
    /\ serial_ch = EOF
    /\ command_str = <<>>

\* the program as it is built: the encoders return their declared rates
Init == encoder_baudrate = DeclaredBaudRates /\ InitState

TxTask ==
    \/ TxInitHas \/ TxInitGet \/ TxInitCreate \/ TxInitInstall \/ TxInitStart
    \/ TxInitAbort \/ TxLoop \/ TxFetch \/ TxCreate \/ TxGearGen \/ TxGearSend
    \/ TxSpeedGen \/ TxSpeedSend \/ TxDelay

SerialTask ==
    \/ handleGetStatus \/ handleSetVehicle \/ handleSetGear \/ handleSetSpeed
    \/ handleResetSettings \/ ResetGear \/ ResetSpeed \/ Respond

UiTask ==
    \/ dropdown_event_handler \/ speed_event_handler \/ gear_event_handler

Reconfigure(t) ==
    \/ RcStop(t) \/ RcUninstall(t) \/ RcHas(t) \/ RcGet(t) \/ RcCreate(t)
    \/ RcInstall(t) \/ RcStart(t)

Next ==
    \/ StartCan
    \/ TxTask
    \/ Arrive("serial", SerialLines)
    \/ Arrive("ui", UiEvents)
    \/ SerialTask
    \/ UiTask
    \/ \E t \in Tasks : Reconfigure(t) \/ Finish(t)

Spec == Init /\ [][Next]_vars

(***************************************************************************)
(* The front ends alone, with a wider choice of requests: the serial task  *)
(* and the UI exist before startCan() creates the bus tasks, and the bus   *)
(* tasks never write the controller's fields.                              *)
(***************************************************************************)
\* the names of the nine declared vehicles in the command protocol
DeclaredVehicleNames ==
    {"VWT7", "VWT6", "VWT61", "VWT5", "MB_SPRINTER", "MB_SPRINTER_2023",
     "JEEP_RENEGADE", "JEEP_RENEGADE_MHEV", "MB_VIANO"}

\* strings that are no vehicle name of the command protocol: another make,
\* the empty string, another case, a prefix, the enum's identifier, and the
\* name vehicleIdToString gives an undeclared id
OtherVehicleStrings == {"TESLA", "", "vwt7", "VWT", "VW_T7", "UNKNOWN"}

AllSerialLines ==
    {Request("set_vehicle", n, 0) :
        n \in DeclaredVehicleNames \cup OtherVehicleStrings}
    \cup {Request("set_gear", n, 0) :
        n \in {"PARK", "REVERSE", "NEUTRAL", "DRIVE", "park", "SPORT"}}
    \cup {Request("set_speed", "", n) : n \in {-1, 0, 50, 250, 251, 300}}
    \cup {Request("reset_settings", "", 0), Request("get_status", "", 0),
          Request("get_supported_vehicles", "", 0)}

AllUiEvents ==
    {Request("dropdown", "", n) : n \in {0, 3, 8}}
    \cup {Request("slider", "", n) : n \in {0, 100, 250}}
    \cup {Request("gear", "", n) : n \in Gears}

\* direct calls of the public CarCanController::setSpeed(uint8_t speed_kmh),
\* made in the UI task's context, with arguments the slider (range 0..250)
\* and the serial handler (which checks first) never pass
SetSpeedCalls == {Request("setSpeed", "", n) : n \in {250, 251, 255}}

\* controller.setSpeed(speed_kmh), called directly
CallSetSpeed ==
    /\ pc["ui"] = "handle" /\ req["ui"].name = "setSpeed"
    /\ setSpeed(U8(req["ui"].num))
    /\ pc' = [pc EXCEPT !["ui"] = "done"]
    /\ UNCHANGED <<generator_cache, drv, txv, req, rc_baud, rc_veh, ser_out,
                   events>>
    /\ UNCHANGED <<rx_message, encoder_baudrate, serin>>

NextFrontEnds ==
    \/ Arrive("serial", AllSerialLines)
    \/ Arrive("ui", AllUiEvents)
    \/ Arrive("ui", SetSpeedCalls)
    \/ SerialTask
    \/ handleGetSupportedVehicles
    \/ UiTask
    \/ CallSetSpeed
    \/ \E t \in Tasks : Reconfigure(t) \/ Finish(t)

SpecFrontEnds == Init /\ [][NextFrontEnds]_vars

(***************************************************************************)
(* The bus tasks that startCan() creates, with the serial task as the one  *)
(* caller of the setters                                                   *)
(***************************************************************************)
NextReceive ==
    \/ StartCan
    \/ TxTask
    \/ twai_receive_task
    \/ Arrive("serial", SerialLines)
    \/ SerialTask
    \/ Reconfigure("serial")
    \/ Finish("serial")

SpecReceive == Init /\ [][NextReceive]_vars

(***************************************************************************)
(* Start-up under fair scheduling, with a driver that fails only for the   *)
(* state it is in: the serial task and the UI select supported vehicles    *)
(* while app_main goes on to startCan() and the bus tasks begin            *)
(***************************************************************************)
StartupLines ==
    {Request("set_vehicle", "VWT7", 0), Request("set_vehicle", "VWT6", 0)}

StartupUiEvents == {Request("dropdown", "", 3), Request("dropdown", "", 0)}

\* twai_driver_install fails only when a driver is installed, and
\* twai_transmit only when the driver is not running
NoSpontaneousFailure ==
    /\ (tx_pc = "init_install" /\ tx_pc' = "deleted") =>
           ~twai_driver_install_possible
    /\ \A t \in Tasks :
           (pc[t] = "rc_install" /\ pc'[t] \notin {"rc_install", "rc_start"}) =>
               ~twai_driver_install_possible
    /\ (tx_frames' # tx_frames /\ tx_frames' # <<>>) =>
           tx_frames'[Len(tx_frames')].ok = twai_transmit_possible

\* the steps of the serial task and of the UI task at start-up
StartupTask(t) ==
    \/ t = "serial" /\ (handleSetVehicle \/ Respond)
    \/ t = "ui" /\ dropdown_event_handler
    \/ Reconfigure(t) /\ NoSpontaneousFailure
    \/ Finish(t)

NextStartup ==
    \/ StartCan
    \/ TxTask /\ NoSpontaneousFailure
    \/ Arrive("serial", StartupLines)
    \/ Arrive("ui", StartupUiEvents)
    \/ \E t \in Tasks : StartupTask(t)

\* app_main reaches startCan(), and the FreeRTOS scheduler lets every task
\* that can take a step take one
FairStartup ==
    /\ WF_vars(StartCan)
    /\ WF_vars(TxTask /\ NoSpontaneousFailure)
    /\ \A t \in Tasks : WF_vars(StartupTask(t))

SpecStartup == Init /\ [][NextStartup]_vars /\ FairStartup

(***************************************************************************)
(* Vehicle selections from the serial task and from the UI, with encoders  *)
(* whose getCANBaudRate() values differ: each class returns one of the     *)
(* rates reconfigureCANController() has a timing for                       *)
(***************************************************************************)
SupportedBaudRates == {125000, 250000, 500000}

DifferingBaudRates ==
    {rates \in [EncoderClasses -> SupportedBaudRates] :
        rates["VWT7"] # rates["VWT6"]}

InitBaudRates == encoder_baudrate \in DifferingBaudRates /\ InitState

NextBaudRates ==
    \/ Arrive("serial", StartupLines)
    \/ Arrive("ui", StartupUiEvents)
    \/ \E t \in Tasks : StartupTask(t)

SpecBaudRates == InitBaudRates /\ [][NextBaudRates]_vars

(***************************************************************************)
(* Properties                                                              *)
(***************************************************************************)
\* the step is the serial task's handler of command `name` starting
SerialHandles(name) ==
    /\ pc["serial"] = "handle"
    /\ req["serial"].name = name
    /\ pc'["serial"] # "handle"

\* the step is the UI task's handler of event `name`
UiHandles(name) ==
    /\ pc["ui"] = "handle"
    /\ req["ui"].name = name
    /\ pc'["ui"] # "handle"

\* a task has called twai_stop() for a reconfiguration that has not returned
ReconfigureInProgress ==
    \E t \in Tasks :
        pc[t] \in {"rc_uninstall", "rc_has", "rc_get", "rc_create",
                   "rc_install", "rc_start"}

\* the step hands a frame to twai_transmit
TransmitAttempt == Len(tx_frames') > Len(tx_frames)

\* C1: no frame is handed to twai_transmit while a reconfiguration
\* (twai_stop .. twai_start) of the serial or the UI task is in progress.
C1_NoTransmitDuringReconfigure ==
    [][TransmitAttempt => ~ReconfigureInProgress]_vars

\* C2: when a tick has sent its two frames, the encoder's vehicle, the gear in
\* the gear frame and the speed in the speed frame are together a (vehicle,
\* speed, gear) the controller held at one instant of the tick.
C2_TickReadsAtomicSnapshot ==
    (tx_pc = "delay" /\ Len(tx_frames) = 2) =>
        \E st \in tick_states :
            /\ tx_gen = st[1]
            /\ tx_frames[1].data =
                  generateGearMessage(ClassOf(tx_gen), st[3], ZeroData).data
            /\ tx_frames[2].data =
                  generateSpeedMessage(ClassOf(tx_gen), st[2], ZeroData).data

\* C3: once startCan has created the transmission task, no bus error ends it:
\* the task is never deleted.
C3_LoopNeverTerminates == tx_pc # "deleted"

\* the gear and the speed message id of an encoder class, from its constants
GearMsgIdOf(cls) == IF cls = "VWT7" THEN VWT7_GEAR_MSG_ID ELSE VWT6_GEAR_MSG_ID
SpeedMsgIdOf(cls) ==
    IF cls = "VWT7" THEN VWT7_SPEED_MSG_ID ELSE VWT6_SPEED_MSG_ID

\* C4: a tick that has an encoder makes exactly two transmit attempts, first
\* the gear frame (gear message id, an encoded gear the controller held in the
\* tick), then the speed frame (speed message id, an encoded speed); there is
\* no speed frame before the tick's gear frame, and no frame without encoder.
C4_GearThenSpeed ==
    /\ tx_gen = 0 => tx_frames = <<>>
    /\ tx_gen # 0 =>
          LET cls == ClassOf(tx_gen) IN
          /\ tx_pc \in {"gear_gen", "gear_send"} => Len(tx_frames) = 0
          /\ tx_pc \in {"speed_gen", "speed_send"} => Len(tx_frames) = 1
          /\ tx_pc = "delay" => Len(tx_frames) = 2
          /\ Len(tx_frames) >= 1 =>
                /\ tx_frames[1].id = GearMsgIdOf(cls)
                /\ \E st \in tick_states :
                      tx_frames[1].data =
                         generateGearMessage(cls, st[3], ZeroData).data
          /\ Len(tx_frames) >= 2 =>
                /\ tx_frames[2].id = SpeedMsgIdOf(cls)
                /\ \E st \in tick_states :
                      tx_frames[2].data =
                         generateSpeedMessage(cls, st[2], ZeroData).data

\* a completed tick on VW T7 whose gear and speed frames were both delivered
C4_Witness ==
    /\ tx_pc = "delay" /\ tx_gen = VW_T7 /\ Len(tx_frames) = 2
    /\ tx_frames[1].ok /\ tx_frames[2].ok
    /\ tx_frames[1].id = VWT7_GEAR_MSG_ID /\ tx_frames[2].id = VWT7_SPEED_MSG_ID

\* C5 as stated: the current vehicle is always one the registry supports.
C5_VehicleAlwaysSupported == isVehicleSupported(current_vehicle)

\* C5 as amended: the current vehicle is always one of the nine declared
\* button_map ids; a set_vehicle (serial name, UI dropdown, reset_settings)
\* with a declared id stores that id, supported by the registry or not, and
\* leaves speed and gear alone; a name that is no declared vehicle's leaves
\* vehicle, speed and gear unchanged.
C5_VehicleAlwaysDeclared ==
    /\ current_vehicle \in button_map
    /\ [][/\ current_vehicle' \in button_map
          /\ SerialHandles("set_vehicle") =>
                LET id == stringToVehicleId(req["serial"].str) IN
                IF id \in button_map
                THEN /\ current_vehicle' = id
                     /\ UNCHANGED <<current_speed_kmh, current_gear>>
                ELSE UNCHANGED ctl
          /\ UiHandles("dropdown") =>
                /\ current_vehicle' = req["ui"].num + 1
                /\ UNCHANGED <<current_speed_kmh, current_gear>>
          /\ SerialHandles("reset_settings") =>
                /\ current_vehicle' = VW_T6
                /\ UNCHANGED <<current_speed_kmh, current_gear>>]_vars

\* set_vehicle MB_SPRINTER has been answered ok and the vehicle is MB_SPRINTER
C5_Witness ==
    /\ pc["serial"] = "done"
    /\ req["serial"] = Request("set_vehicle", "MB_SPRINTER", 0)
    /\ ser_out[1].type = "response"
    /\ current_vehicle = MB_SPRINTER
    /\ ~isVehicleSupported(current_vehicle)

\* C6: the speed is always within 0..250; setSpeed(v) stores v when v <= 250
\* and changes nothing when v is in 251..255 (it does not clamp), whoever
\* calls it (the UI slider handler, the serial set_speed handler, a direct
\* call).
C6_SpeedInRange ==
    /\ current_speed_kmh \in 0..250
    /\ [][/\ current_speed_kmh' \in 0..250
          /\ (UiHandles("slider") \/ UiHandles("setSpeed")) =>
                IF req["ui"].num <= 250
                THEN /\ current_speed_kmh' = req["ui"].num
                     /\ UNCHANGED <<current_vehicle, current_gear>>
                ELSE UNCHANGED ctl
          /\ (SerialHandles("set_speed") /\ req["serial"].num \in 0..250) =>
                /\ current_speed_kmh' = req["serial"].num
                /\ UNCHANGED <<current_vehicle, current_gear>>]_vars

\* setSpeed(255) has been called and has returned; the speed is still the 100
\* the slider set before
C6_Witness ==
    /\ pc["ui"] = "done"
    /\ req["ui"] = Request("setSpeed", "", 255)
    /\ current_speed_kmh = 100

\* the step is the serial task printing the ok response of command `name`
SerialResponds(name) ==
    /\ pc["serial"] = "respond"
    /\ req["serial"].name = name
    /\ pc'["serial"] = "done"

\* get_status reports the controller's state as it is
StatusIsCurrent ==
    SerialHandles("get_status") =>
        /\ Len(ser_out') = 1
        /\ ser_out'[1].type = "response"
        /\ ser_out'[1].vehicle = vehicleIdToString(current_vehicle)
        /\ ser_out'[1].gear = gearToString(current_gear)
        /\ ser_out'[1].speed = current_speed_kmh

\* C7 as stated: set_vehicle with a name that is not the name of a vehicle
\* with a registered encoder is answered with an error and leaves the vehicle
\* as it was, which a following get_status reports.
C7_UnsupportedNameRejected ==
    [][/\ (/\ SerialHandles("set_vehicle")
           /\ ~isVehicleSupported(stringToVehicleId(req["serial"].str))) =>
              /\ ser_out' = <<sendError("set_vehicle")>>
              /\ UNCHANGED ctl
       /\ StatusIsCurrent]_vars

\* C7 as amended: set_vehicle with a name that is none of the nine declared
\* vehicle names is answered with an error and leaves vehicle, speed and gear
\* as they were, which a following get_status reports; a declared name, with
\* a registered encoder or without, is stored and answered ok.
C7_UnknownNameRejected ==
    [][/\ SerialHandles("set_vehicle") =>
             IF req["serial"].str \in DeclaredVehicleNames
             THEN /\ current_vehicle' = stringToVehicleId(req["serial"].str)
                  /\ pc'["serial"] = "rc_stop"
                  /\ ser_out' = <<>>
             ELSE /\ ser_out' = <<sendError("set_vehicle")>>
                  /\ pc'["serial"] = "done"
                  /\ UNCHANGED ctl
       /\ SerialResponds("set_vehicle") =>
             /\ ser_out'[1].type = "response"
             /\ ser_out'[1].vehicle = req["serial"].str
       /\ StatusIsCurrent]_vars

\* set_vehicle TESLA has been answered with an error; the vehicle is still the
\* VW T7 selected before
C7_Witness ==
    /\ pc["serial"] = "done"
    /\ req["serial"] = Request("set_vehicle", "TESLA", 0)
    /\ ser_out = <<sendError("set_vehicle")>>
    /\ current_vehicle = VW_T7

\* C8: set_speed with a speed below 0 or above 250 is answered with an error,
\* setSpeed is not called (the handler is finished, no field has changed), and
\* a following get_status reports the speed, vehicle and gear as they were.
C8_OutOfRangeSpeedRejected ==
    [][/\ (/\ SerialHandles("set_speed")
           /\ (req["serial"].num < 0 \/ req["serial"].num > 250)) =>
              /\ ser_out' = <<sendError("set_speed")>>
              /\ pc'["serial"] = "done"
              /\ UNCHANGED ctl
       /\ StatusIsCurrent]_vars

\* set_speed 300 has been answered with an error; the speed is still 50
C8_Witness ==
    /\ pc["serial"] = "done"
    /\ req["serial"] = Request("set_speed", "", 300)
    /\ ser_out = <<sendError("set_speed")>>
    /\ current_speed_kmh = 50

\* the gear a valid gear name stands for
GearNamed(gear_str) ==
    CASE gear_str = "PARK" -> PARK
      [] gear_str = "REVERSE" -> REVERSE
      [] gear_str = "NEUTRAL" -> NEUTRAL
      [] gear_str = "DRIVE" -> DRIVE

\* C9: set_gear with a string that is not exactly PARK, REVERSE, NEUTRAL or
\* DRIVE is answered with an error and changes no state (it does not select
\* Park); each of the four names sets the gear to that gear, PARK included,
\* and is answered ok with that name.
C9_InvalidGearRejected ==
    [][/\ SerialHandles("set_gear") =>
             IF req["serial"].str \in {"PARK", "REVERSE", "NEUTRAL", "DRIVE"}
             THEN /\ current_gear' = GearNamed(req["serial"].str)
                  /\ UNCHANGED <<current_vehicle, current_speed_kmh>>
                  /\ pc'["serial"] = "respond"
             ELSE /\ ser_out' = <<sendError("set_gear")>>
                  /\ pc'["serial"] = "done"
                  /\ UNCHANGED ctl
       /\ SerialResponds("set_gear") =>
             /\ ser_out'[1].type = "response"
             /\ ser_out'[1].gear = req["serial"].str]_vars

\* set_gear "park" has been answered with an error; the gear is still Drive
C9_Witness ==
    /\ pc["serial"] = "done"
    /\ req["serial"] = Request("set_gear", "park", 0)
    /\ ser_out = <<sendError("set_gear")>>
    /\ current_gear = DRIVE

\* C10: a tick whose encoder lookup read a vehicle without registered encoder
\* hands no frame to the driver, and every frame of a tick comes from the
\* encoder of the vehicle its lookup read.
C10_NoFrameWithoutEncoder ==
    /\ ~isVehicleSupported(tx_veh) => (tx_frames = <<>> /\ tx_gen = 0)
    /\ tx_frames # <<>> => tx_gen = tx_veh

\* the loop's hasMessageGenerator check passed, the vehicle then changed to
\* MB_SPRINTER, the lookup found no encoder and the tick ended without a frame
C10_Witness ==
    /\ tx_pc = "delay"
    /\ tx_veh = MB_SPRINTER
    /\ tx_gen = 0
    /\ tx_frames = <<>>

\* the positions of twai_task inside its while (1) loop
LoopPositions ==
    {"loop", "fetch", "create", "gear_gen", "gear_send", "speed_gen",
     "speed_send", "delay"}

\* the transmit task takes a step
TxSteps == tx_pc' # tx_pc

ReinstallFails(t) ==
    /\ pc[t] = "rc_install"
    /\ pc'[t] # "rc_install"
    /\ pc'[t] # "rc_start"

\* the step is task t's twai_start in reconfigureCANController failing
RestartFails(t) ==
    /\ pc[t] = "rc_start"
    /\ pc'[t] # "rc_start"
    /\ ~twai_start_ok

\* the step is task t's twai_start in reconfigureCANController returning ESP_OK
RestartSucceeds(t) ==
    /\ pc[t] = "rc_start"
    /\ pc'[t] # "rc_start"
    /\ twai_start_ok

\* C12 as stated: a failed reinstall or start of a reconfiguration leaves the
\* bus not running; while it is not running every transmit attempt fails and
\* the loop goes on; the bus runs again only through a start that succeeds
\* after a successful install, and does run after it.
C12_FailedReconfigureLeavesBusDown ==
    [][/\ \A t \in Tasks :
             (ReinstallFails(t) \/ RestartFails(t)) => twai_state' # "running"
       /\ (TransmitAttempt /\ twai_state # "running") =>
             /\ ~tx_frames'[Len(tx_frames')].ok
             /\ tx_pc' \in LoopPositions
       /\ (twai_state # "running" /\ twai_state' = "running") =>
             \/ \E t \in Tasks : RestartSucceeds(t)
             \/ tx_pc = "init_start"
       /\ \A t \in Tasks : RestartSucceeds(t) => twai_state' = "running"]_vars

\* the step is a getMessageGenerator(vehicle) past its cache miss that
\* constructs a generator and writes generator_cache[vehicle]
ConstructsFor(vehicle) ==
    /\ createMessageGenerator(vehicle) # "null"
    /\ \/ tx_pc \in {"create", "init_create"} /\ TxSteps /\ tx_veh = vehicle
       \/ \E t \in Tasks :
             pc[t] = "rc_create" /\ pc'[t] # "rc_create" /\ rc_veh[t] = vehicle

\* C13: for each vehicle id a generator is constructed and its cache entry
\* written at most once (a construction never finds the entry already
\* written), also when the tick and a reconfiguration look the same uncached
\* vehicle up concurrently; entries are never evicted or replaced.
C13_EncoderConstructedOnce ==
    [][/\ \A vehicle \in button_map :
             ConstructsFor(vehicle) => ~Cached(vehicle)
       /\ \A vehicle \in DOMAIN generator_cache :
             /\ vehicle \in DOMAIN generator_cache'
             /\ generator_cache'[vehicle] = generator_cache[vehicle]]_vars

(***************************************************************************)
(* The registry alone: MessageGeneratorFactory::getMessageGenerator called  *)
(* with every button_id_t value from 0 up to one past the declared ids, the *)
(* calls one after the other.                                               *)
(***************************************************************************)
MaxVehicleId == 10

VehicleIds == 0..MaxVehicleId

\* getMessageGenerator(vehicle), the whole call: tx_veh is the argument,
\* tx_gen the generator returned (its cache key; 0: nullptr)
getMessageGenerator(vehicle) ==
    /\ tx_veh' = vehicle
    /\ IF Cached(vehicle)
       THEN tx_gen' = vehicle /\ UNCHANGED generator_cache
       ELSE LET cls == createMessageGenerator(vehicle)
            IN  IF cls # "null"
                THEN /\ generator_cache' = CacheWith(vehicle, cls)
                     /\ tx_gen' = vehicle
                ELSE /\ tx_gen' = 0
                     /\ UNCHANGED generator_cache
    /\ UNCHANGED <<ctl, drv, tx_pc, tx_baud, tx_data, tx_dlc, tx_frames,
                   tick_states, setv>>
    /\ UNCHANGED <<rx_message, encoder_baudrate, serin>>

NextRegistry == \E vehicle \in VehicleIds : getMessageGenerator(vehicle)

SpecRegistry == Init /\ [][NextRegistry]_vars

\* the elements of the vector getSupportedVehicles() returns
SupportedVehicleSet ==
    {getSupportedVehicles[i] : i \in 1..Len(getSupportedVehicles)}

\* C14: for every id from 0 to one past the declared ids, isVehicleSupported
\* holds exactly when createMessageGenerator constructs a generator and
\* exactly when the id is in getSupportedVehicles(); a getMessageGenerator
\* call returns a generator exactly for a supported id, and the cache holds
\* entries for supported ids only, each of the class constructed for its id.
C14_RegistryViewsAgree ==
    /\ \A vehicle \in VehicleIds :
          /\ isVehicleSupported(vehicle)
                <=> createMessageGenerator(vehicle) # "null"
          /\ isVehicleSupported(vehicle) <=> vehicle \in SupportedVehicleSet
    /\ tx_gen # 0 <=> isVehicleSupported(tx_veh)
    /\ tx_gen # 0 => (tx_gen = tx_veh /\ Cached(tx_veh))
    /\ \A vehicle \in DOMAIN generator_cache :
          /\ isVehicleSupported(vehicle)
          /\ generator_cache[vehicle] = createMessageGenerator(vehicle)

\* getMessageGenerator(MB_SPRINTER) has returned nullptr and has added no
\* cache entry, after a call for VW_T7 that did
C14_Witness ==
    /\ tx_veh = MB_SPRINTER
    /\ tx_gen = 0
    /\ DOMAIN generator_cache = {VW_T7}

\* C15: every generator the registry returns or caches has a gear message
\* id different from its speed message id and a baud rate that is one of
\* 125000, 250000, 500000.
C15_EncoderConstantsValid ==
    \A vehicle \in DOMAIN generator_cache \cup ({tx_gen} \ {0}) :
        LET cls == generator_cache[vehicle]
            ids == getRequiredMessageIds(cls)
        IN  /\ Len(ids) = 2
            /\ ids[1] # ids[2]
            /\ getCANBaudRate(cls) \in {125000, 250000, 500000}

\* the registry has returned a generator for each of the four supported
\* vehicles, the last one for VW_T5
C15_Witness ==
    /\ DOMAIN generator_cache = SupportedVehicleSet
    /\ tx_gen = VW_T5
    /\ generator_cache[VW_T5] = "VWT6"

(***************************************************************************)
(* The encoders alone: the frame part of sendPeriodicMessages, run for      *)
(* every generator the registry returns, every uint8_t speed, every gear    *)
(* value up to one past the enum, and several contents of the               *)
(* uninitialised uint8_t data[8].                                           *)
(***************************************************************************)
MaxSpeedInput == 255
MaxGearInput == 4

\* what the stack array data[8] may hold when the tick begins
StaleBuffers ==
    {ZeroData, <<255, 255, 255, 255, 255, 255, 255, 255>>,
     <<1, 2, 3, 4, 5, 6, 7, 8>>}

InitEncoders ==
    /\ encoder_baudrate = DeclaredBaudRates
    /\ current_vehicle \in SupportedVehicleSet
    /\ current_speed_kmh \in {U8(n) : n \in 0..MaxSpeedInput}
    /\ current_gear \in 0..MaxGearInput
    /\ generator_cache =
          (current_vehicle :> createMessageGenerator(current_vehicle))
    /\ twai_state = "running"
    /\ twai_baud = DEFAULT_BAUDRATE
    /\ tx_pc = "gear_gen"
    /\ tx_baud = DEFAULT_BAUDRATE
    /\ tx_veh = current_vehicle
    /\ tx_gen = current_vehicle
    /\ tx_data \in StaleBuffers
    /\ tx_dlc = 0
    /\ tx_frames = <<>>
    /\ tick_states = {<<current_vehicle, current_speed_kmh, current_gear>>}
    /\ pc = [t \in Tasks |-> "idle"]
    /\ req = [t \in Tasks |-> NoReq]
    /\ rc_baud = [t \in Tasks |-> DEFAULT_BAUDRATE]
    /\ rc_veh = [t \in Tasks |-> 0]
    /\ ser_out = <<>>
    /\ events = 0
    /\ rx_message = NoMessage
    /\ input_buffer = <<>>
    /\ serial_ch = EOF
    /\ command_str = <<>>

NextEncoders == TxGearGen \/ TxGearSend \/ TxSpeedGen \/ TxSpeedSend

SpecEncoders == InitEncoders /\ [][NextEncoders]_vars

\* data[i] of the buffer (TLA+ sequences start at 1)
DataAt(data, i) == data[i + 1]

\* the byte offset of the speed field: data[4] (VW T7), data[2] (VW T6)
SpeedOffsetOf(cls) == IF cls = "VWT7" THEN 4 ELSE 2

\* C16: for every supported encoder and every speed in 0..250 the raw value
\* is speed * 100 (factor 0.01) or speed * 200 (factor 0.005), below 65536,
\* written low byte first at the family's offset, and dividing it by the
\* same 100 or 200 gives the speed back (within one unit: exactly).
C16_SpeedEncodingRoundTrip ==
    (tx_pc = "speed_send" /\ current_speed_kmh <= 250) =>
        LET cls == ClassOf(tx_gen)
            scale == IF cls = "VWT7" THEN 100 ELSE 200
            raw == current_speed_kmh * scale
            at == SpeedOffsetOf(cls)
        IN  /\ raw < 65536
            /\ DataAt(tx_data, at) = raw % 256
            /\ DataAt(tx_data, at + 1) = raw \div 256
            /\ DataAt(tx_data, at) + 256 * DataAt(tx_data, at + 1) = raw
            /\ LET back == (DataAt(tx_data, at)
                            + 256 * DataAt(tx_data, at + 1)) \div scale
               IN  /\ back >= current_speed_kmh - 1
                   /\ back <= current_speed_kmh + 1

\* the VW T6 encoder has encoded 250 km/h as 50000 = 0xC350 in data[2..3]
C16_Witness ==
    /\ tx_pc = "speed_send"
    /\ ClassOf(tx_gen) = "VWT6"
    /\ current_speed_kmh = 250
    /\ DataAt(tx_data, 2) = 80
    /\ DataAt(tx_data, 3) = 195

\* C17: with VW_T7 selected, gear Drive gives a gear frame with id 0x3DC
\* (988), eight bytes, data[5] = 0x02 and the other seven bytes zero; speed
\* 100 gives a speed frame with id 0x0FD (253), eight bytes, data[4] = 0x10,
\* data[5] = 0x27 (10000 low byte first) and the other six bytes zero.
C17_T7FrameBytes ==
    tx_gen = VW_T7 =>
        /\ (Len(tx_frames) >= 1 /\ current_gear = DRIVE) =>
              /\ tx_frames[1].id = 988
              /\ tx_frames[1].dlc = 8
              /\ tx_frames[1].data = <<0, 0, 0, 0, 0, 2, 0, 0>>
        /\ (Len(tx_frames) >= 2 /\ current_speed_kmh = 100) =>
              /\ tx_frames[2].id = 253
              /\ tx_frames[2].dlc = 8
              /\ tx_frames[2].data = <<0, 0, 0, 0, 16, 39, 0, 0>>

\* a VW T7 tick with gear Drive and speed 100 has handed over both frames,
\* starting from a buffer of 0xFF bytes
C17_Witness ==
    /\ tx_gen = VW_T7
    /\ current_gear = DRIVE
    /\ current_speed_kmh = 100
    /\ tx_pc = "delay"
    /\ Len(tx_frames) = 2
    /\ tx_frames[1].id = 988
    /\ tx_frames[2].id = 253

\* the byte offset of the gear field: data[5] (VW T7), data[1] (VW T6)
GearOffsetOf(cls) == IF cls = "VWT7" THEN 5 ELSE 1

\* C18: for every supported encoder a gear frame's gear byte, at the
\* family's offset, is the family's non-zero code of the gear (VW T7: P 0x05,
\* R 0x04, N 0x03, D 0x02; VW T6: P 0x80, R 0x77, N 0x60, D 0x50), a gear
\* value outside the enum gives Park's code, and no payload is all zero.
C18_GearEncodingTotal ==
    tx_pc = "gear_send" =>
        LET cls == ClassOf(tx_gen)
            byte == DataAt(tx_data, GearOffsetOf(cls))
            park == IF cls = "VWT7" THEN 5 ELSE 128
        IN  /\ byte # 0
            /\ tx_data # ZeroData
            /\ byte = CASE current_gear = PARK -> park
                        [] current_gear = REVERSE ->
                              IF cls = "VWT7" THEN 4 ELSE 119
                        [] current_gear = NEUTRAL ->
                              IF cls = "VWT7" THEN 3 ELSE 96
                        [] current_gear = DRIVE ->
                              IF cls = "VWT7" THEN 2 ELSE 80
                        [] OTHER -> park

\* a VW T6 generator has encoded the gear value 4, which is no Gear, as 0x80
C18_Witness ==
    /\ tx_pc = "gear_send"
    /\ ClassOf(tx_gen) = "VWT6"
    /\ current_gear = 4
    /\ DataAt(tx_data, 1) = 128

\* C19: every encode call reports dlc 8 and leaves every byte outside its
\* field 0x00, whatever data[8] held before (stack garbage before the gear
\* frame, the gear frame before the speed frame); every frame handed over
\* has eight bytes, and the speed frame holds nothing of the gear frame.
C19_ZeroFilledPayload ==
    LET cls == ClassOf(tx_gen)
        gearField == {GearOffsetOf(cls)}
        speedField == {SpeedOffsetOf(cls), SpeedOffsetOf(cls) + 1}
    IN  /\ tx_pc = "gear_send" =>
              /\ tx_dlc = 8
              /\ \A i \in (0..7) \ gearField : DataAt(tx_data, i) = 0
        /\ tx_pc = "speed_send" =>
              /\ tx_dlc = 8
              /\ \A i \in (0..7) \ speedField : DataAt(tx_data, i) = 0
        /\ \A k \in 1..Len(tx_frames) :
              /\ tx_frames[k].dlc = 8
              /\ Len(tx_frames[k].data) = 8
        /\ Len(tx_frames) >= 1 =>
              \A i \in (0..7) \ gearField : DataAt(tx_frames[1].data, i) = 0
        /\ Len(tx_frames) = 2 =>
              \A i \in (0..7) \ speedField : DataAt(tx_frames[2].data, i) = 0

\* a VW T6 tick whose gear frame had 0x80 in data[1] has encoded its speed
\* frame into the same buffer: data[1] is 0x00
C19_Witness ==
    /\ tx_pc = "speed_send"
    /\ ClassOf(tx_gen) = "VWT6"
    /\ Len(tx_frames) = 1
    /\ DataAt(tx_frames[1].data, 1) = 128
    /\ current_speed_kmh = 250
    /\ DataAt(tx_data, 1) = 0
    /\ DataAt(tx_data, 2) = 80

(***************************************************************************)
(* The bus configuration alone: twai_task's initial configuration and one   *)
(* reconfigureCANController (after its stop and uninstall), each either     *)
(* before its hasMessageGenerator() check or holding a baud rate a          *)
(* generator's getCANBaudRate() could return.                               *)
(***************************************************************************)
BaudInputs == {0, 100000, 125000, 250000, 500000, 1000000}

InitTiming ==
    /\ encoder_baudrate = DeclaredBaudRates
    /\ current_vehicle \in {VW_T7, VW_T5, MB_SPRINTER, MB_VIANO}
    /\ current_speed_kmh = 0
    /\ current_gear = PARK
    /\ generator_cache = <<>>
    /\ twai_state = "uninstalled"
    /\ twai_baud = 0
    /\ \/ tx_pc = "init_has" /\ tx_baud = DEFAULT_BAUDRATE
       \/ tx_pc = "init_install" /\ tx_baud \in BaudInputs
    /\ tx_veh = 0
    /\ tx_gen = 0
    /\ tx_data = ZeroData
    /\ tx_dlc = 0
    /\ tx_frames = <<>>
    /\ tick_states = {}
    /\ \E b \in BaudInputs :
          \/ /\ pc = [t \in Tasks |-> IF t = "serial" THEN "rc_has" ELSE "idle"]
             /\ rc_baud = [t \in Tasks |-> DEFAULT_BAUDRATE]
          \/ /\ pc = [t \in Tasks |->
                         IF t = "serial" THEN "rc_install" ELSE "idle"]
             /\ rc_baud = [t \in Tasks |->
                              IF t = "serial" THEN b ELSE DEFAULT_BAUDRATE]
    /\ req = [t \in Tasks |->
                 IF t = "serial"
                 THEN Request("set_vehicle", vehicleIdToString(current_vehicle), 0)
                 ELSE NoReq]
    /\ rc_veh = [t \in Tasks |-> 0]
    /\ ser_out = <<>>
    /\ events = 1
    /\ rx_message = NoMessage
    /\ input_buffer = <<>>
    /\ serial_ch = EOF
    /\ command_str = <<>>

NextTiming ==
    \/ TxInitHas \/ TxInitGet \/ TxInitCreate \/ TxInitInstall \/ TxInitStart
    \/ RcHas("serial") \/ RcGet("serial") \/ RcCreate("serial")
    \/ RcInstall("serial") \/ RcStart("serial")

SpecTiming == InitTiming /\ [][NextTiming]_vars

\* C20: the timing installed is the baud rate the configuring code holds if
\* that is 125000, 250000 or 500000 and the 500k timing for any other rate,
\* whatever the vehicle; a vehicle without encoder is configured with the
\* 500000 default; twai_task and reconfigureCANController map every rate to
\* the same timing.
C20_TimingFromBaudRate ==
    [][/\ \A b \in BaudInputs : InitialTimingFor(b) = TimingFor(b)
       /\ (tx_pc = "init_install" /\ tx_pc' = "init_start") =>
             twai_baud' = IF tx_baud \in {125000, 250000, 500000}
                          THEN tx_baud ELSE 500000
       /\ (pc["serial"] = "rc_install" /\ pc'["serial"] = "rc_start") =>
             twai_baud' = IF rc_baud["serial"] \in {125000, 250000, 500000}
                          THEN rc_baud["serial"] ELSE 500000
       /\ (tx_pc = "init_has" /\ TxSteps
           /\ ~isVehicleSupported(current_vehicle)) =>
             tx_pc' = "init_install" /\ tx_baud' = 500000
       /\ (pc["serial"] = "rc_has" /\ pc'["serial"] # "rc_has"
           /\ ~isVehicleSupported(current_vehicle)) =>
             pc'["serial"] = "rc_install" /\ rc_baud'["serial"] = 500000]_vars

\* twai_task, holding the unsupported rate 1000000, has installed the driver
\* with the 500k timing
C20_Witness ==
    /\ tx_pc = "init_start"
    /\ tx_baud = 1000000
    /\ twai_state = "stopped"
    /\ twai_baud = 500000

(***************************************************************************)
(* The names of the command protocol                                       *)
(***************************************************************************)
\* the names of the four gears in the command protocol
DeclaredGearNames == {gearToString(g) : g \in Gears}

\* C21: the vehicle name <-> id mapping is total and bidirectional: every
\* declared id comes back from its name, distinct ids have distinct names,
\* every name is a declared one, and a string that is none of the names maps
\* to the invalid marker 0 and never to a declared id; the four gears come
\* back from their names. In the handler: a set_vehicle that has been answered
\* was answered ok with the name it was sent exactly when that name is a
\* declared one, and is answered with an error otherwise.
C21_NameIdRoundTrip ==
    /\ INVALID_VEHICLE \notin button_map
    /\ \A v \in button_map : stringToVehicleId(vehicleIdToString(v)) = v
    /\ \A v, w \in button_map :
           v # w => vehicleIdToString(v) # vehicleIdToString(w)
    /\ {vehicleIdToString(v) : v \in button_map} = DeclaredVehicleNames
    /\ \A n \in DeclaredVehicleNames :
           /\ stringToVehicleId(n) \in button_map
           /\ vehicleIdToString(stringToVehicleId(n)) = n
    /\ \A n \in OtherVehicleStrings :
           /\ n \notin DeclaredVehicleNames
           /\ stringToVehicleId(n) = INVALID_VEHICLE
    /\ \A g \in Gears : stringToGear(gearToString(g)) = g
    /\ \A g, h \in Gears : g # h => gearToString(g) # gearToString(h)
    /\ \A n \in DeclaredGearNames : gearToString(stringToGear(n)) = n
    /\ (pc["serial"] = "done" /\ req["serial"].name = "set_vehicle") =>
           IF req["serial"].str \in DeclaredVehicleNames
           THEN /\ Len(ser_out) = 2
                /\ ser_out[1].type = "response"
                /\ ser_out[1].vehicle = req["serial"].str
                /\ stringToVehicleId(ser_out[1].vehicle) \in button_map
           ELSE ser_out = <<sendError("set_vehicle")>>

\* set_vehicle JEEP_RENEGADE_MHEV has been answered ok with that name, and the
\* vehicle stored is the id of that name
C21_Witness ==
    /\ pc["serial"] = "done"
    /\ req["serial"] = Request("set_vehicle", "JEEP_RENEGADE_MHEV", 0)
    /\ ser_out[1] = Msg("response", "set_vehicle", "JEEP_RENEGADE_MHEV", "-", -1)
    /\ ser_out[2].vehicle = "JEEP_RENEGADE_MHEV"
    /\ current_vehicle = JEEP_RENEGADE_MHEV

(***************************************************************************)
(* Defaults                                                                *)
(***************************************************************************)
\* no request has reached a setter yet: the controller's fields are those
\* its constructor wrote
NewlyConstructed == events = 0

\* C22 as stated: a newly constructed CarCanController has the documented
\* default state: vehicle VW_T7, speed 0 km/h, gear PARK.
C22_ConstructedWithDocumentedDefaults ==
    NewlyConstructed =>
        /\ current_vehicle = VW_T7
        /\ current_speed_kmh = 0
        /\ current_gear = PARK

\* the serial task is inside handleResetSettings, after its first call
InReset ==
    /\ req["serial"].name = "reset_settings"
    /\ pc["serial"] \notin {"idle", "handle"}

\* how far handleResetSettings has brought the state towards `vehicle`, speed
\* 0 and gear PARK: the vehicle from its first call on, the gear after
\* setGear, the speed after setSpeed; at its end the ok response and a status
\* update that carries the three values
ResetProgress(vehicle) ==
    /\ current_vehicle = vehicle
    /\ pc["serial"] \in {"reset_speed", "respond", "done"} =>
           current_gear = PARK
    /\ pc["serial"] \in {"respond", "done"} => current_speed_kmh = 0
    /\ pc["serial"] = "done" =>
           ser_out = <<Msg("response", "reset_settings", "-", "-", -1),
                       Msg("status_update", "-", vehicleIdToString(vehicle),
                           "PARK", 0)>>

\* the step is a setter called by the UI task while the serial task is where
\* it was
ConcurrentSetter ==
    /\ pc'["serial"] = pc["serial"]
    /\ <<current_vehicle, current_speed_kmh, current_gear>>' #
           <<current_vehicle, current_speed_kmh, current_gear>>

\* reset_settings never refuses, and with no concurrent setter it brings the
\* state to `vehicle`, speed 0, gear PARK and answers ok
ResetReaches(vehicle) ==
    /\ SerialHandles("reset_settings") =>
           /\ pc'["serial"] = "rc_stop"
           /\ ResetProgress(vehicle)'
    /\ (InReset /\ ResetProgress(vehicle) /\ ~ConcurrentSetter) =>
           (InReset' => ResetProgress(vehicle)')
    /\ (InReset /\ pc["serial"] # "done") =>
           ENABLED (SerialTask \/ Reconfigure("serial"))

ListsVehicles ==
    /\ SerialHandles("get_supported_vehicles")
    /\ pc'["serial"] = "done"
    /\ Len(ser_out') = 1
    /\ ser_out'[1].type = "response"

\* the names in the array of the answer printed last
ListedNames == {ser_out[1].vehicles[i] : i \in 1..Len(ser_out[1].vehicles)}

\* C24 as stated: get_supported_vehicles always succeeds and lists exactly the
\* vehicles the registry reports as supported, which are those v with
\* isVehicleSupported(v): every listed name can be selected and has an encoder
\* to transmit with.
C24_ListsRegistryVehicles ==
    [][SerialHandles("get_supported_vehicles") =>
          /\ ListsVehicles
          /\ ListedNames' = {vehicleIdToString(v) : v \in SupportedVehicleSet}
          /\ \A n \in ListedNames' :
                 /\ setCurrentVehicleAccepts(stringToVehicleId(n))
                 /\ isVehicleSupported(stringToVehicleId(n))]_vars

\* C24 as amended: get_supported_vehicles always succeeds and lists, in
\* ascending order of id and each once, the names of the nine vehicles of the
\* button map: every listed name is accepted by set_vehicle, the vehicles the
\* registry reports as supported are among them, and the five listed vehicles
\* the registry does not support have no encoder to transmit with.
C24_ListsButtonMap ==
    [][SerialHandles("get_supported_vehicles") =>
          /\ ListsVehicles
          /\ UNCHANGED ctl
          /\ Len(ser_out'[1].vehicles) = Cardinality(button_map)
          /\ \A i \in 1..Len(ser_out'[1].vehicles) :
                 /\ stringToVehicleId(ser_out'[1].vehicles[i]) \in button_map
                 /\ \A j \in 1..(i - 1) :
                        stringToVehicleId(ser_out'[1].vehicles[j]) <
                            stringToVehicleId(ser_out'[1].vehicles[i])
          /\ \A n \in ListedNames' :
                 /\ handleSetVehicleValid(stringToVehicleId(n))
                 /\ setCurrentVehicleAccepts(stringToVehicleId(n))
          /\ {vehicleIdToString(v) : v \in SupportedVehicleSet}
                 \subseteq ListedNames'
          /\ \A n \in ListedNames' :
                 ~isVehicleSupported(stringToVehicleId(n)) =>
                     createMessageGenerator(stringToVehicleId(n)) = "null"
          /\ Cardinality({n \in ListedNames' :
                 ~isVehicleSupported(stringToVehicleId(n))}) = 5]_vars

\* get_supported_vehicles has been answered; MB_SPRINTER, which the registry
\* does not support, is the fifth of the nine names
C24_Witness ==
    /\ pc["serial"] = "done"
    /\ req["serial"].name = "get_supported_vehicles"
    /\ Len(ser_out) = 1
    /\ Len(ser_out[1].vehicles) = 9
    /\ ser_out[1].vehicles[1] = "VWT5"
    /\ ser_out[1].vehicles[5] = "MB_SPRINTER"
    /\ ~isVehicleSupported(MB_SPRINTER)

(***************************************************************************)
(* The order of the supported vehicles                                     *)
(***************************************************************************)
\* C25 as stated: getSupportedVehicles returns the supported ids, the ids of
\* the cached encoders among them, in the declaration order of the vehicle
\* enum, which is the ascending order of the ids, identical on every call.
C25_DeclarationOrder ==
    /\ \A i, j \in 1..Len(getSupportedVehicles) :
           i < j => getSupportedVehicles[i] < getSupportedVehicles[j]
    /\ SupportedVehicleSet = {v \in VehicleIds : isVehicleSupported(v)}
    /\ \A v \in VehicleIds : Cached(v) => v \in SupportedVehicleSet

\* C25 as amended: getSupportedVehicles returns, whatever the registry has
\* cached, the same vector on every call: each supported id once, the ids of
\* the cached encoders among them, in the order VW_T7, VW_T6, VW_T61, VW_T5,
\* which is not the order of declaration.
C25_StableOrder ==
    /\ getSupportedVehicles = <<VW_T7, VW_T6, VW_T61, VW_T5>>
    /\ \A i, j \in 1..Len(getSupportedVehicles) :
           i # j => getSupportedVehicles[i] # getSupportedVehicles[j]
    /\ SupportedVehicleSet = {v \in VehicleIds : isVehicleSupported(v)}
    /\ \A v \in VehicleIds : Cached(v) => v \in SupportedVehicleSet
    /\ \E i, j \in 1..Len(getSupportedVehicles) :
           i < j /\ getSupportedVehicles[i] > getSupportedVehicles[j]

\* the registry has constructed and cached the encoders of the first and of
\* the last vehicle of the vector, VW_T7 and VW_T5
C25_Witness ==
    /\ Cached(getSupportedVehicles[1])
    /\ Cached(getSupportedVehicles[Len(getSupportedVehicles)])
    /\ getSupportedVehicles[1] = VW_T7
    /\ getSupportedVehicles[Len(getSupportedVehicles)] = VW_T5

(***************************************************************************)
(* One reconfiguration per accepted selection                              *)
(***************************************************************************)
\* the vehicle the request of task t passes to setCurrentVehicle
RequestedVehicle(t) ==
    CASE req[t].name = "set_vehicle" -> stringToVehicleId(req[t].str)
      [] req[t].name = "reset_settings" -> VW_T6
      [] req[t].name = "dropdown" -> DropdownVehicle(req[t].num)
      [] OTHER -> INVALID_VEHICLE

\* the positions of task t between the driver calls of a reconfiguration
RcBetweenCalls == {"rc_has", "rc_get", "rc_create"}

\* the step is task t leaving position p
Leaves(t, p) == pc[t] = p /\ pc'[t] # p

\* task t's call of setCurrentVehicle from its store to its return: the store
\* of the vehicle asked for, then twai_stop, twai_driver_uninstall, the choice
\* of the bit rate with no driver call, twai_driver_install, twai_start only
\* after an install that succeeded, and the return; none of these steps but
\* the store writes the vehicle, speed or gear
OneOrderedReconfiguration(t) ==
    /\ pc'[t] = "rc_stop" =>
           /\ pc[t] \in {"handle", "rc_stop"}
           /\ Leaves(t, "handle") =>
                  /\ setCurrentVehicleAccepts(RequestedVehicle(t))
                  /\ current_vehicle' = RequestedVehicle(t)
                  /\ UNCHANGED drv
    /\ Leaves(t, "rc_stop") =>
           /\ pc'[t] = "rc_uninstall"
           /\ twai_state' = IF twai_state = "running"
                            THEN "stopped" ELSE twai_state
           /\ UNCHANGED ctl
    /\ Leaves(t, "rc_uninstall") =>
           /\ pc'[t] = "rc_has"
           /\ twai_state' = IF twai_state = "stopped"
                            THEN "uninstalled" ELSE twai_state
           /\ UNCHANGED ctl
    /\ (pc[t] \in RcBetweenCalls /\ pc'[t] # pc[t]) =>
           /\ pc'[t] \in RcBetweenCalls \cup {"rc_install"}
           /\ UNCHANGED <<ctl, drv>>
    /\ Leaves(t, "rc_install") =>
           /\ IF twai_state = "uninstalled" /\ twai_state' = "stopped"
              THEN pc'[t] = "rc_start"
              ELSE pc'[t] = AfterReconfigure(t) /\ UNCHANGED drv
           /\ UNCHANGED ctl
    /\ pc'[t] = "rc_start" => pc[t] \in {"rc_install", "rc_start"}
    /\ Leaves(t, "rc_start") =>
           /\ pc'[t] = AfterReconfigure(t)
           /\ pc'[t] \notin {"rc_stop", "rc_uninstall", "rc_install"}
           /\ twai_state' = IF twai_state = "stopped"
                            THEN "running" ELSE twai_state
           /\ UNCHANGED <<ctl, twai_baud>>

\* C26: after an accepted setCurrentVehicle(v) the vehicle is v, and the call
\* performs exactly one bus reconfiguration whose driver steps are, in this
\* order, stop, uninstall, install and start, start being attempted only if
\* the install succeeded.
C26_OneOrderedReconfiguration ==
    [][\A t \in Tasks : OneOrderedReconfiguration(t)]_vars

\* set_vehicle VWT7 has returned from its one reconfiguration: the vehicle is
\* VW_T7 and the driver it installed and started is running at 500 kbit/s
C26_Witness ==
    /\ pc["serial"] = "respond"
    /\ pc["ui"] = "idle"
    /\ req["serial"] = Request("set_vehicle", "VWT7", 0)
    /\ current_vehicle = VW_T7
    /\ twai_state = "running"
    /\ twai_baud = TimingFor(VWT7_CAN_BAUDRATE)

(***************************************************************************)
(* Setters called twice                                                    *)
(***************************************************************************)
\* the step is a call of controller.setSpeed: by handleSetSpeed after its
\* check, by the slider's handler, directly, or by handleResetSettings
SetSpeedCall ==
    \/ SerialHandles("set_speed") /\ handleSetSpeedValid(req["serial"].num)
    \/ UiHandles("slider")
    \/ UiHandles("setSpeed")
    \/ Leaves("serial", "reset_speed")

\* the argument of that call, a uint8_t
SetSpeedArgument ==
    IF pc["serial"] = "reset_speed" /\ pc'["serial"] # "reset_speed" THEN 0
    ELSE IF pc'["serial"] # pc["serial"] THEN U8(req["serial"].num)
    ELSE U8(req["ui"].num)

\* the step is a call of controller.setGear: by handleSetGear after its
\* check, by the gear buttons' handler, or by handleResetSettings
SetGearCall ==
    \/ SerialHandles("set_gear")
           /\ handleSetGearValid(stringToGear(req["serial"].str),
                                 req["serial"].str)
    \/ UiHandles("gear")
    \/ Leaves("serial", "reset_gear")

\* the argument of that call
SetGearArgument ==
    IF pc["serial"] = "reset_gear" /\ pc'["serial"] # "reset_gear" THEN PARK
    ELSE IF pc'["serial"] # pc["serial"] THEN stringToGear(req["serial"].str)
    ELSE req["ui"].num

\* the step is a call of controller.setCurrentVehicle up to its store: by
\* handleSetVehicle after its check, by handleResetSettings, or by the
\* dropdown's handler
SetVehicleCall ==
    \/ SerialHandles("set_vehicle")
           /\ handleSetVehicleValid(stringToVehicleId(req["serial"].str))
    \/ SerialHandles("reset_settings")
    \/ UiHandles("dropdown")

\* the argument of that call
SetVehicleArgument ==
    IF pc'["serial"] # pc["serial"] THEN RequestedVehicle("serial")
    ELSE RequestedVehicle("ui")

\* C27: the setters are idempotent on (vehicle, speed, gear): a call of
\* setSpeed(s) stores s, or nothing when it refuses s, and touches neither
\* vehicle nor gear, so that a call made in a state the same call has produced
\* changes nothing; the same holds for setGear(g) and for the store of
\* setCurrentVehicle(v).
C27_SettersIdempotent ==
    [][/\ SetSpeedCall =>
              LET s == SetSpeedArgument
                  once == IF setSpeedAccepts(s) THEN s ELSE current_speed_kmh
                  twice == IF setSpeedAccepts(s) THEN s ELSE once
              IN  /\ current_speed_kmh' = once
                  /\ twice = once
                  /\ current_speed_kmh = once => UNCHANGED ctl
                  /\ UNCHANGED <<current_vehicle, current_gear>>
       /\ SetGearCall =>
              /\ current_gear' = SetGearArgument
              /\ current_gear = SetGearArgument => UNCHANGED ctl
              /\ UNCHANGED <<current_vehicle, current_speed_kmh>>
       /\ SetVehicleCall =>
              LET v == SetVehicleArgument
                  once == IF setCurrentVehicleAccepts(v)
                          THEN v ELSE current_vehicle
              IN  /\ current_vehicle' = once
                  /\ current_vehicle = once => UNCHANGED ctl
                  /\ UNCHANGED <<current_speed_kmh, current_gear>>]_vars

\* the serial task is about to call setSpeed(50) for the second time in
\* succession: no other request sets 50, and this is the second request
C27_Witness ==
    /\ pc["serial"] = "handle"
    /\ req["serial"] = Request("set_speed", "", 50)
    /\ current_speed_kmh = 50
    /\ events = 2
    /\ ENABLED handleSetSpeed

(***************************************************************************)
(* Reception                                                               *)
(***************************************************************************)
\* the step is twai_receive returning ESP_OK with a frame other than the one
\* message held
ReceivesFrame == rx_message' # rx_message

\* C28: bus reception never feeds back into state: a frame received by the
\* receive task (as a receive that times out or fails, which is no step)
\* leaves vehicle, speed, gear, the registry's cache and the driver's state
\* and bit rate unchanged, hands no frame to twai_transmit and moves neither
\* the transmission task nor the serial task.
C28_ReceptionHasNoEffect ==
    [][ReceivesFrame =>
          /\ rx_message' \in RxFrames
          /\ twai_state # "uninstalled"
          /\ UNCHANGED <<ctl, generator_cache, drv>>
          /\ UNCHANGED <<tx_frames, tx_pc, txv>>
          /\ UNCHANGED <<tick_states, setv>>]_vars

\* a VW T6 speed frame of 100 km/h has been received while the vehicle is the
\* VW T7, the speed is 50 km/h and the bus is running: the speed is still 50
C28_Witness ==
    /\ rx_message.identifier = VWT6_SPEED_MSG_ID
    /\ current_vehicle = VW_T7
    /\ current_speed_kmh = 50
    /\ twai_state = "running"
    /\ tx_pc = "gear_send"

(***************************************************************************)
(* Transmission after start-up                                             *)
(***************************************************************************)
\* the tick has handed its gear frame to twai_transmit, which returned ESP_OK
GearFrameTransmitted ==
    /\ tx_pc = "speed_gen"
    /\ Len(tx_frames) = 1
    /\ tx_frames[1].id = GearMsgIdOf(ClassOf(tx_gen))
    /\ tx_frames[1].ok

\* the tick has handed its speed frame to twai_transmit, which returned ESP_OK
SpeedFrameTransmitted ==
    /\ tx_pc = "delay"
    /\ Len(tx_frames) = 2
    /\ tx_frames[2].id = SpeedMsgIdOf(ClassOf(tx_gen))
    /\ tx_frames[2].ok

\* C29 as stated: with a driver that never fails spontaneously and a supported
\* vehicle selected, under fair scheduling gear frames and speed frames are
\* transmitted infinitely often, whatever the start-up interleaving, also when
\* a set_vehicle installs and starts the driver before the transmission task
\* performs its own initial install.
C29_TransmitsInfinitelyOften ==
    <>[]isVehicleSupported(current_vehicle) =>
        ([]<>GearFrameTransmitted /\ []<>SpeedFrameTransmitted)

(***************************************************************************)
(* The bit rate of the running bus                                         *)
(***************************************************************************)
\* the rate reconfigureCANController takes for a vehicle: its encoder's, or
\* the default 500000 when it has none
RequiredBaudRate(vehicle) ==
    IF isVehicleSupported(vehicle)
    THEN getCANBaudRate(createMessageGenerator(vehicle))
    ELSE DEFAULT_BAUDRATE

\* a task is inside setCurrentVehicle, between its store and its return
Reconfiguring ==
    \E t \in Tasks :
        pc[t] \in {"rc_stop", "rc_uninstall", "rc_has", "rc_get", "rc_create",
                   "rc_install", "rc_start"}

RcPositions ==
    {"rc_stop", "rc_uninstall", "rc_has", "rc_get", "rc_create", "rc_install",
     "rc_start"}

\* the step is a call of a bus driver function (stop, uninstall, install,
\* start) by a task: its result may leave the driver as it was
DriverCall ==
    \E t \in Tasks :
        /\ pc[t] \in {"rc_stop", "rc_uninstall", "rc_install", "rc_start"}
        /\ pc'[t] # pc[t]

\* C31: setSpeed and setGear change only their own field: a setSpeed, accepted
\* or refused, leaves vehicle and gear as they were, a setGear leaves vehicle
\* and speed as they were, and neither calls a bus driver function nor enters
\* a reconfiguration; the driver's state and bit rate change only in a driver
\* call of a reconfiguration, and a reconfiguration is entered only by a
\* vehicle selection.
C31_SettersTouchOwnField ==
    [][/\ SetSpeedCall =>
              /\ UNCHANGED <<current_vehicle, current_gear>>
              /\ current_speed_kmh' \in {SetSpeedArgument, current_speed_kmh}
              /\ ~setSpeedAccepts(SetSpeedArgument) => UNCHANGED ctl
              /\ UNCHANGED <<drv, generator_cache>>
              /\ ~DriverCall
              /\ \A t \in Tasks : pc'[t] \notin RcPositions \/ pc'[t] = pc[t]
       /\ SetGearCall =>
              /\ UNCHANGED <<current_vehicle, current_speed_kmh>>
              /\ current_gear' = SetGearArgument
              /\ UNCHANGED <<drv, generator_cache>>
              /\ ~DriverCall
              /\ \A t \in Tasks : pc'[t] \notin RcPositions \/ pc'[t] = pc[t]
       /\ drv' # drv => DriverCall
       /\ \A t \in Tasks :
              (pc'[t] = "rc_stop" /\ pc[t] # "rc_stop") =>
                  /\ SetVehicleCall
                  /\ req[t].name \in {"set_vehicle", "reset_settings",
                                      "dropdown"}]_vars

\* the slider's handler has set 100 km/h while the bus that a set_vehicle
\* VWT7 started is running: vehicle, gear and bus are as the selection left
\* them
C31_Witness ==
    /\ pc["ui"] = "done" /\ req["ui"] = Request("slider", "", 100)
    /\ pc["serial"] = "idle"
    /\ current_speed_kmh = 100
    /\ current_gear = PARK
    /\ current_vehicle = VW_T7
    /\ twai_state = "running"
    /\ twai_baud = TimingFor(DEFAULT_BAUDRATE)

(***************************************************************************)
(* Direct calls of the public setCurrentVehicle (and of btnCallback, which *)
(* passes its argument on), with every id from 0 to one past the declared  *)
(* ones, beside the selections of the serial task and of the dropdown      *)
(***************************************************************************)
SetVehicleCalls ==
    {Request("setCurrentVehicle", "", n) : n \in VehicleIds}

\* controller.setCurrentVehicle(vehicle), called directly
CallSetCurrentVehicle ==
    /\ pc["ui"] = "handle" /\ req["ui"].name = "setCurrentVehicle"
    /\ setCurrentVehicle("ui", req["ui"].num, "done")
    /\ UNCHANGED <<generator_cache, drv, txv, req, rc_baud, rc_veh, ser_out,
                   events>>
    /\ UNCHANGED <<rx_message, encoder_baudrate, serin>>

NextSetVehicle ==
    \/ Arrive("serial", StartupLines)
    \/ Arrive("ui", StartupUiEvents)
    \/ Arrive("ui", SetVehicleCalls)
    \/ CallSetCurrentVehicle
    \/ \E t \in Tasks : StartupTask(t)

SpecSetVehicle == Init /\ [][NextSetVehicle]_vars

\* C32: setCurrentVehicle with an id that is none of the nine of the button
\* map is a complete no-op: vehicle, speed and gear stay, no bus driver
\* function is called and no reconfiguration is entered, while a declared id
\* is stored and reconfigures; so the current vehicle is always one of the
\* nine declared ids.
C32_UndeclaredIdIsNoOp ==
    [][/\ current_vehicle \in button_map
       /\ current_vehicle' \in button_map
       /\ UiHandles("setCurrentVehicle") =>
              IF req["ui"].num \in button_map
              THEN /\ current_vehicle' = req["ui"].num
                   /\ pc'["ui"] = "rc_stop"
              ELSE /\ UNCHANGED <<ctl, drv, generator_cache, rc_baud, rc_veh>>
                   /\ ~DriverCall
                   /\ pc'["ui"] = "done"]_vars

\* setCurrentVehicle(10) has returned while the bus that a set_vehicle VWT7
\* started is running: the vehicle is still VW_T7
C32_Witness ==
    /\ pc["ui"] = "done"
    /\ req["ui"] = Request("setCurrentVehicle", "", 10)
    /\ current_vehicle = VW_T7
    /\ twai_state = "running"


(***************************************************************************)
(* C33: the frames of VW T6                                                *)
(***************************************************************************)
\* the gear codes of VW T6: Park 0x80, Reverse 0x77, Neutral 0x60, Drive 0x50
T6GearCode == (PARK :> 128) @@ (REVERSE :> 119) @@ (NEUTRAL :> 96) @@ (DRIVE :> 80)

GearFrameOf(vehicle) ==
    LET cls == createMessageGenerator(vehicle)
        m == generateGearMessage(cls, current_gear, ZeroData)
    IN  [id |-> getRequiredMessageIds(cls)[1], dlc |-> m.dlc,
         data |-> SubSeq(m.data, 1, m.dlc)]

\* the same for the current speed and the speed frame
SpeedFrameOf(vehicle) ==
    LET cls == createMessageGenerator(vehicle)
        m == generateSpeedMessage(cls, current_speed_kmh, ZeroData)
    IN  [id |-> getRequiredMessageIds(cls)[2], dlc |-> m.dlc,
         data |-> SubSeq(m.data, 1, m.dlc)]

\* the k-th frame of a tick: the gear frame, then the speed frame
FrameOf(vehicle, k) ==
    IF k = 1 THEN GearFrameOf(vehicle) ELSE SpeedFrameOf(vehicle)

\* a transmitted frame without the driver's result
Sent(frame) == [id |-> frame.id, dlc |-> frame.dlc, data |-> frame.data]

\* C34: for every speed and gear the frames handed over in a tick with VW_T5
\* or VW_T61 selected (id, dlc, payload) and the encoder's baud rate are those
\* of VW_T6.
C34_T5AndT61AsT6 ==
    tx_gen \in {VW_T5, VW_T61} =>
        /\ \A k \in 1..Len(tx_frames) :
              Sent(tx_frames[k]) = FrameOf(VW_T6, k)
        /\ getCANBaudRate(ClassOf(tx_gen)) = getCANBaudRate(ClassOf(VW_T6))
        /\ GearFrameOf(tx_gen) = GearFrameOf(VW_T6)
        /\ SpeedFrameOf(tx_gen) = SpeedFrameOf(VW_T6)

\* a VW T5 tick with gear Drive and speed 120 has handed over both frames,
\* with VW T6's ids 0x0440 and 0x01A0
C34_Witness ==
    /\ tx_gen = VW_T5
    /\ current_gear = DRIVE
    /\ current_speed_kmh = 120
    /\ tx_pc = "delay"
    /\ Len(tx_frames) = 2
    /\ tx_frames[1].id = 1088
    /\ tx_frames[2].id = 416
    /\ tx_frames[2].data = <<0, 0, 192, 93, 0, 0, 0, 0>>


(***************************************************************************)
(* C35: the vehicle type an encoder reports                                *)
(***************************************************************************)
\* C35: for every supported vehicle id v the generator the registry returned
\* for v reports v as its vehicle type (getVehicleType() = v).
C35_EncoderReportsItsVehicle ==
    (tx_gen # 0 /\ isVehicleSupported(tx_veh)) =>
        getVehicleType(generator_cache[tx_gen]) = tx_veh


(***************************************************************************)
(* C36: one encoder per tick                                               *)
(***************************************************************************)
\* the k-th frame handed over in this tick has the k-th message id of the
\* class `cls` and a payload that class encodes from a gear (k = 1) or a speed
\* (k = 2) the controller held during the tick
EncodedBy(cls, k) ==
    /\ tx_frames[k].id = getRequiredMessageIds(cls)[k]
    /\ \E st \in tick_states :
          tx_frames[k].data =
              IF k = 1
              THEN generateGearMessage(cls, st[3], ZeroData).data
              ELSE generateSpeedMessage(cls, st[2], ZeroData).data

\* C36: the generator fetched at the start of sendPeriodicMessages is the one
\* used until the tick ends, whatever happens to the selected vehicle, and
\* every frame of the tick has that generator's message id and that
\* generator's encoding.
C36_OneEncoderPerTick ==
    [][/\ (tx_gen # 0 /\ tx_pc # "delay") => tx_gen' = tx_gen
       /\ \A k \in 1..Len(tx_frames') : EncodedBy(ClassOf(tx_gen), k)']_vars

\* a tick that began with VW T6 has handed over both frames with VW T6's ids
\* although VW T7 was selected before the speed frame was encoded
C36_Witness ==
    /\ tx_gen = VW_T6
    /\ current_vehicle = VW_T7
    /\ tx_pc = "delay"
    /\ Len(tx_frames) = 2
    /\ <<VW_T6, current_speed_kmh, current_gear>> \in tick_states
    /\ tx_frames[1].id = 1088
    /\ tx_frames[2].id = 416


(***************************************************************************)
(* C37: the frames handed to the driver                                    *)
(***************************************************************************)
\* the gear and speed message ids of the supported vehicles' generators
SupportedMessageIds ==
    UNION {{getRequiredMessageIds(createMessageGenerator(v))[k] : k \in 1..2} :
              v \in {getSupportedVehicles[n] : n \in 1..Len(getSupportedVehicles)}}

\* C37: every frame handed to the bus driver has dlc 8 and eight payload
\* bytes, and its identifier fits in 11 bits and is the gear or the speed
\* message id of a supported vehicle's generator.
C37_FramesWellFormed ==
    \A k \in 1..Len(tx_frames) :
        /\ tx_frames[k].dlc = 8
        /\ Len(tx_frames[k].data) = 8
        /\ tx_frames[k].id \in 0..(2^11 - 1)
        /\ tx_frames[k].id \in SupportedMessageIds
        /\ tx_gen # 0

\* a tick of VW T7, selected after construction, has handed over its two
\* frames, ids 0x3DC and 0x0FD
C37_Witness ==
    /\ tx_gen = VW_T7
    /\ tx_pc = "delay"
    /\ Len(tx_frames) = 2
    /\ tx_frames[1].id = 988 /\ tx_frames[1].dlc = 8
    /\ tx_frames[2].id = 253 /\ tx_frames[2].dlc = 8


(***************************************************************************)
(* The command protocol alone: the serial task processing every kind of    *)
(* line, one line at a time                                                *)
(***************************************************************************)
\* AllSerialLines and: ping, set_can_active with and without its flag, the
\* setters without their field, an unknown command, a JSON value without a
\* command and a line that is no JSON
CommandLines ==
    AllSerialLines
    \cup {Request("ping", "", 0), Request("set_can_active", "true", 0),
          Request("set_can_active", "false", 0),
          Request("reboot", "", 0), Request(NoCommandField, "", 0),
          Request(MalformedJson, "", 0)}
    \cup {Request(n, AbsentField, 0) :
             n \in {"set_vehicle", "set_gear", "set_speed", "set_can_active"}}

\* processCommand: the dispatch and the handlers
processCommand ==
    \/ SerialTask \/ Reconfigure("serial")
    \/ handleGetSupportedVehicles \/ handlePing \/ handleSetCanActive
    \/ processCommandError

NextCommands ==
    \/ Arrive("serial", CommandLines)
    \/ processCommand
    \/ Finish("serial")

SpecCommands == Init /\ [][NextCommands]_vars

(***************************************************************************)
(* C38: one reply per command line                                         *)
(***************************************************************************)
\* the commands that change the controller when they succeed
SettingCommands == {"set_vehicle", "set_gear", "set_speed", "reset_settings"}

\* the replies (type response or error) among the objects printed
Replies(out) == {k \in 1..Len(out) : out[k].type \in {"response", "error"}}

\* the status updates among the objects printed
StatusUpdates(out) == {k \in 1..Len(out) : out[k].type = "status_update"}

InSetter ==
    /\ req["serial"].name \in {"set_vehicle", "set_speed", "set_gear"}
    /\ pc["serial"] \notin {"idle", "handle"}

\* the controller's field holds the value the command asked for
FieldHolds ==
    LET r == req["serial"]
    IN  CASE r.name = "set_vehicle" ->
                current_vehicle = stringToVehicleId(r.str)
          [] r.name = "set_speed" -> current_speed_kmh = r.num
          [] r.name = "set_gear" -> current_gear = stringToGear(r.str)
          [] OTHER -> TRUE

\* the ok response of the command and the status update report one value,
\* the one the controller's field holds
ReplyTruthful ==
    LET r == req["serial"]
    IN  /\ Len(ser_out) = 2
        /\ ser_out[1].type = "response"
        /\ ser_out[2].type = "status_update"
        /\ CASE r.name = "set_vehicle" ->
                   /\ ser_out[1].vehicle = vehicleIdToString(current_vehicle)
                   /\ ser_out[2].vehicle = ser_out[1].vehicle
             [] r.name = "set_speed" ->
                   /\ ser_out[1].speed = current_speed_kmh
                   /\ ser_out[2].speed = ser_out[1].speed
             [] r.name = "set_gear" ->
                   /\ ser_out[1].gear = gearToString(current_gear)
                   /\ ser_out[2].gear = ser_out[1].gear
             [] OTHER -> TRUE

\* C39: whenever handleSetVehicle, handleSetSpeed or handleSetGear goes on to
\* its ok response, the controller has accepted the value (its field holds
\* it after the call); with no concurrent setter the field still holds it when
\* the reply is printed, and the reply and the status update that follows
\* report that value; a value that is refused is answered with an error.
C39_OkResponseTruthful ==
    [][/\ \A name \in {"set_vehicle", "set_speed", "set_gear"} :
             SerialHandles(name) =>
                 IF pc'["serial"] = "done"
                 THEN ser_out'[1].type = "error" /\ UNCHANGED ctl
                 ELSE FieldHolds'
       /\ (InSetter /\ FieldHolds /\ ~ConcurrentSetter) =>
              /\ InSetter' => FieldHolds'
              /\ (pc["serial"] = "respond" /\ pc'["serial"] = "done") =>
                     ReplyTruthful']_vars

\* set_vehicle MB_SPRINTER, a declared vehicle without an encoder, has been
\* answered: the controller holds MB_SPRINTER and both objects report it
C39_Witness ==
    /\ pc["serial"] = "done"
    /\ req["serial"] = Request("set_vehicle", "MB_SPRINTER", 0)
    /\ current_vehicle = MB_SPRINTER
    /\ Len(ser_out) = 2
    /\ ser_out[1].vehicle = "MB_SPRINTER"
    /\ ser_out[2].vehicle = "MB_SPRINTER"


(***************************************************************************)
(* The serial task's line input: serialTask reading stdin character by     *)
(* character                                                               *)
(***************************************************************************)
BUFFER_SIZE == 1024

\* how many leading characters of a line are drawn from both ends of the
\* printable range; the characters after them are spaces
MaxVaried == 1

\* '\n', '\r'
LineTerminators == {10, 13}

\* ch >= 32 && ch <= 126
Printable == 32..126

\* what getchar() returns: nothing, a line terminator, a printable character,
\* or a control character, DEL or a byte above 127
SerialInputs ==
    {EOF, 9, 31, 127, 200} \cup LineTerminators
    \cup (IF Len(input_buffer) < MaxVaried THEN {32, 126} ELSE {32})

\* input_buffer += ch with the overflow check one too high
appendChar_off_by_one(buffer, ch) ==
    IF Len(buffer) + 1 > BUFFER_SIZE THEN <<>> ELSE Append(buffer, ch)

\* input_buffer += ch; if (input_buffer.length() > BUFFER_SIZE - 1) clear()
appendChar(buffer, ch) ==
    IF Len(buffer) + 1 > BUFFER_SIZE - 1 THEN <<>> ELSE Append(buffer, ch)

\* one turn of serialTask's loop
serialTask ==
    /\ \E c \in SerialInputs :
          /\ serial_ch' = c
          /\ IF c # EOF /\ c \in LineTerminators
             THEN /\ command_str' = input_buffer
                  /\ input_buffer' = <<>>
             ELSE /\ command_str' = <<>>
                  /\ input_buffer' =
                        IF c # EOF /\ c \in Printable
                        THEN appendChar(input_buffer, c)
                        ELSE input_buffer
    /\ UNCHANGED <<ctl, generator_cache, drv, txv, tick_states, setv,
                   rx_message, encoder_baudrate>>

NextSerialInput == serialTask

SpecSerialInput == Init /\ [][NextSerialInput]_vars

(***************************************************************************)
(* C40: the input buffer                                                   *)
(***************************************************************************)
\* C40: the input buffer never holds more than 1023 characters, and only
\* printable ASCII; a line terminator passes a non-empty buffer to
\* processCommand and clears it, and passes nothing when the buffer is empty;
\* a printable character is appended, and when that makes the length exceed
\* 1023 the buffer is cleared and nothing is processed; every other character
\* leaves the buffer alone.
C40_InputBufferBounded ==
    [][/\ Len(input_buffer') <= 1023
       /\ \A i \in 1..Len(input_buffer') : input_buffer'[i] \in 32..126
       /\ CASE serial_ch' \in {10, 13} ->
                  /\ command_str' = input_buffer
                  /\ input_buffer' = <<>>
            [] serial_ch' \in 32..126 ->
                  /\ command_str' = <<>>
                  /\ input_buffer' =
                        IF Len(input_buffer) = 1023
                        THEN <<>>
                        ELSE Append(input_buffer, serial_ch')
            [] OTHER ->
                  /\ command_str' = <<>>
                  /\ input_buffer' = input_buffer]_vars

\* the 1024th printable character of a line has emptied the buffer, and
\* nothing was processed
C40_Witness ==
    /\ serial_ch = 32
    /\ input_buffer = <<>>
    /\ command_str = <<>>

=============================================================================
